---- MODULE Spec2Model ----
(***************************************************************************)
(* State machine of the statement analysis queue of the intelligent bill   *)
(* analyzer (js/shared.js, the credit-card page script in js/nav.js and    *)
(* the bank-statement page script).                                        *)
(*                                                                         *)
(* JavaScript runs one task at a time: an action of this module is the     *)
(* synchronous code that runs from one suspension point (await) to the     *)
(* next, or one event handler.                                             *)
(*                                                                         *)
(* fileQueue is the sequence of the entry objects; an entry object is      *)
(* identified by its position.  An object that was taken out of the array  *)
(* (remove button, restore) can no longer be reached through the page: of  *)
(* such an object the state keeps only what the running processQueue can   *)
(* still do with it, the file of an item the for-of loop has yet to visit  *)
(* (oldArr) and the number of inference calls still outstanding            *)
(* (orphanCalls).                                                          *)
(***************************************************************************)
EXTENDS Integers, Sequences, FiniteSets, TLC

\* ------------------------------------------------------------------ values
NULL == "null"
EmptyPw == ""

Contents == {"c1", "c2"}
Passwords == {"p1", "p2"}
\* Amounts are whole numbers.  Infinity stands for the Number Infinity, above
\* every amount written with digits; NullAmount for a null where an amount
\* is expected: below every number for the sort, 0 in `tx.amount || 0`.
Infinity == 1000000
NullAmount == -2000000
\* ------------------------------------------------------------------ bounds
MaxQueue == 2
MaxPrompts == 2
MaxPresets == 2

\* ------------------------------------------------------------ pure helpers
Range(s) == {s[k] : k \in 1..Len(s)}

Min(S) == CHOOSE x \in S : \A y \in S : x <= y

\* the subsequence of s made of its elements that are in S
RECURSIVE FilterSeq(_, _)
FilterSeq(s, S) ==
    IF s = <<>> THEN <<>>
    ELSE IF Head(s) \in S THEN <<Head(s)>> \o FilterSeq(Tail(s), S)
    ELSE FilterSeq(Tail(s), S)

\* crypto.subtle.digest('SHA-256', bytes) as hex: deterministic, and
\* distinct on the contents of the model
calculateFileHash(bytes) ==
    IF bytes = "c1" THEN "h1" ELSE IF bytes = "c2" THEN "h2" ELSE "h0"

\* A File the user can drop: MIME type, bytes, the password it is encrypted
\* with (NULL: not encrypted) and whether its structure is corrupt.
MkFile(t, b, l, c) == [type |-> t, bytes |-> b, lock |-> l, corrupt |-> c]

\* the placeholder { name: ... } of a restored entry: not a Blob
NoFile == MkFile("none", "-", NULL, FALSE)

\* pdfjsLib.getDocument({data, password}) followed by processPdfDocument:
\* "password" is a PasswordException, "corrupt" any other error
OpenOutcome(f, pw) ==
    IF f.lock # NULL /\ pw # f.lock THEN "password"
    ELSE IF f.corrupt THEN "corrupt"
    ELSE "ok"

NoResult == [billHash |-> NULL, bankName |-> NULL]

BankOrUnknown(result) ==
    \* item.result.bankName || '未知銀行'
    LET UnknownBank == "unknownBank"
    IN  IF result.bankName = NULL THEN UnknownBank ELSE result.bankName

\* ------------------------------------------------------------------- state
VARIABLES
    fileQueue,   \* the global array of entry objects
    fileDom,     \* what renderFileQueue last drew: <<[id, status]>>
    saveDisabled,\* dom.saveButton.disabled
    stored,      \* localStorage[STORAGE_KEY][kind], the subtree of this page's
                 \* document kind: <<[bank, results]>>
    otherKind,   \* the subtree of the other document kind
    presets,     \* localStorage.passwordPresets
    pc,          \* where processQueue is suspended
    cur,         \* Phase A: position of the item being prepared (0: the
                 \* item is no longer in fileQueue)
    curFile,     \* Phase A: item.file of the item being prepared
    detached,    \* Phase A: fileQueue was reassigned, the loop walks oldArr
    oldArr,      \* items the loop has yet to visit when detached
    toTry,       \* prepareApiPayload: rest of passwordsToTry
    userPw,      \* prepareApiPayload: userPassword
    orphanCalls, \* outstanding inference calls of entries taken out
    runPresets,  \* history: presets read when prepareApiPayload started
    attempts     \* history: passwords given to getDocument for curFile

\* The result cards of the page (aggregatedResultsContainer).
VARIABLES
    cutoffDay,   \* parseInt(dom.cutoffDayInput.value, 10), 0 for NaN
    cards,       \* the cards last drawn, with monthlyAndBankGroupedData:
                 \* <<[month, bank, rows, subtotal, sortKey, direction]>>
    totals,      \* the month totals last drawn: <<[month, total]>>
    footer       \* bank statements: the total-balance footer last drawn

viewVars == <<cutoffDay, cards, totals, footer>>

\* processPdfDocument, taken by itself.
VARIABLES
    pdfDoc,      \* the opened document: its pages, each the text items
                 \* (item.str) of the page's getTextContent()
    payload      \* what processPdfDocument returned for it: {apiParts, hash},
                 \* no parts before it has returned

vars == <<fileQueue, fileDom, saveDisabled, stored, otherKind, presets, pc,
          cur, curFile,
          detached, oldArr, toTry, userPw, orphanCalls, runPresets, attempts,
          cutoffDay, cards, totals, footer, pdfDoc, payload>>

PhaseA == {"read", "open", "prompt"}

\* ----------------------------------------------------------- entry objects
LoadedId(h, n) ==
    [kind |-> "file-loaded", key |-> IF h # NULL THEN h ELSE ToString(n)]

randomUUID(Q) ==
    LET UsedUuids == {n \in 1..Len(Q) : \E p \in 1..Len(Q) : Q[p].id.key = ToString(n)}
        \* smallest positive number not in `used`
        Fresh(used) ==
            CHOOSE n \in 1..(Cardinality(used) + 1) :
                n \notin used /\ \A m \in 1..(n - 1) : m \in used
    IN  Fresh(UsedUuids)

\* handleFiles: the object pushed for an uploaded PDF.  `calling` is the
\* pending promise of analyzeWithGemini, `fate` a history field: what last
\* set the status, `obj` a history field: which object item.result refers
\* to when that is the result object of a record of the last restore (the
\* number of the record), 0 for an object no other entry refers to.
UploadedEntry(n, f) ==
    \* `file-${crypto.randomUUID()}`: a UUID never equals one in use
    LET FileId == [kind |-> "file", key |-> ToString(n)]
    IN  [id |-> FileId, file |-> f, status |-> "pending", result |-> NoResult,
         hash |-> NULL, loadedFromLocal |-> FALSE, apiParts |-> FALSE,
         calling |-> FALSE, fate |-> "new", obj |-> 0]

\* processLoadedData: the object pushed for a persisted record, here the
\* first record of the snapshot
LoadedEntry(n, res) ==
    [id |-> LoadedId(res.billHash, n), file |-> NoFile, status |-> "success",
     result |-> res, hash |-> res.billHash, loadedFromLocal |-> TRUE,
     apiParts |-> FALSE, calling |-> FALSE, fate |-> "new", obj |-> 1]

\* renderFileQueue: one row per queue item, buttons carry the item's id
renderFileQueue(Q) ==
    [p \in 1..Len(Q) |-> [id |-> Q[p].id, status |-> Q[p].status]]

\* fileQueue.find(item => item.id === fileId): first match, 0 when none
FindById(Q, fid) ==
    LET hits == {p \in 1..Len(Q) : Q[p].id = fid}
    IN IF hits = {} THEN 0 ELSE Min(hits)

\* fileQueue.find(i => i.loadedFromLocal && i.hash === h)
FindLoaded(Q, h) ==
    LET hits == {p \in 1..Len(Q) : Q[p].loadedFromLocal /\ Q[p].hash = h}
    IN IF hits = {} THEN 0 ELSE Min(hits)

\* A write into the result object of the entry at p (a line item changed,
\* a row spliced out), after which the object holds `result`: every entry
\* whose result is that object shows it
WriteResult(Q, p, result) ==
    LET SameObject(q) ==
            \/ q = p
            \/ /\ Q[p].obj # 0
               /\ Q[q].obj = Q[p].obj
               /\ Q[q].result # NoResult
    IN  [q \in 1..Len(Q) |->
            IF SameObject(q) THEN [Q[q] EXCEPT !.result = result] ELSE Q[q]]

\* successfulResults.length === 0 in renderAggregatedResults
NoSuccess(Q) ==
    \A p \in 1..Len(Q) : ~(Q[p].status = "success" /\ Q[p].result # NoResult)

\* the footer element before renderTotalBalanceFooter has run
NoFooter == [text |-> "none", total |-> 0]

Init ==
    /\ fileQueue = <<>>
    /\ fileDom = <<>>
    /\ saveDisabled \in BOOLEAN
    /\ stored = <<>>
    /\ otherKind = <<>>
    /\ presets = <<>>
    /\ pc = "idle"
    /\ cur = 0
    /\ curFile = NoFile
    /\ detached = FALSE
    /\ oldArr = <<>>
    /\ toTry = <<>>
    /\ userPw = NULL
    /\ orphanCalls = 0
    /\ runPresets = <<>>
    /\ attempts = <<>>
    /\ cutoffDay = 0
    /\ cards = <<>>
    /\ totals = <<>>
    /\ footer = NoFooter
    /\ pdfDoc = <<>>
    /\ payload = [apiParts |-> <<>>, hash |-> NULL]

\* ------------------------------------------------------------ processQueue
\* The items the for-of loop of Phase A has yet to visit: [pos, file], pos
\* the item's position in fileQueue, 0 for a pending item taken out of it.
LoopRest ==
    IF detached THEN oldArr
    ELSE [k \in 1..(Len(fileQueue) - cur) |->
             [pos |-> cur + k, file |-> fileQueue[cur + k].file]]

Calling(Q) == {p \in 1..Len(Q) : Q[p].calling}

\* variant: the status of the item is not looked at
DispatchedWithPayload(item) == item.apiParts

\* Phase B skips an item when (item.status !== 'processing' || !item.apiParts)
Dispatched(item) == item.status = "processing" /\ item.apiParts

\* variant: the wait is over while one dispatched call is still pending
AllButOneSettled(Q, orphans) == Cardinality(Calling(Q)) + orphans <= 1

\* Promise.allSettled: Phase B is over when no dispatched call is pending
AllSettled(Q, orphans) == Calling(Q) = {} /\ orphans = 0

\* The rest of one synchronous stretch of processQueue, entered when the
\* loop body is done with an item: the for-of loop skips to the next pending
\* item, marks it processing, draws the queue and suspends in
\* readFileAsArrayBuffer; when the loop is exhausted the queue is drawn,
\* every item left in `processing` with a payload is dispatched, and with
\* nothing to wait for the run ends.
Continue(Q, rest, dt) ==
    LET nxt == {k \in 1..Len(rest) :
                   rest[k].pos = 0 \/ Q[rest[k].pos].status = "pending"}
        k == Min(nxt)
        p == rest[k].pos
        Q1 == IF p = 0 THEN Q
              ELSE [Q EXCEPT ![p].status = "processing", ![p].fate = "taken"]
        Q2 == [q \in 1..Len(Q) |->
                  IF Dispatched(Q[q])
                  THEN [Q[q] EXCEPT !.calling = TRUE] ELSE Q[q]]
    IN /\ IF nxt # {}
          THEN /\ fileQueue' = Q1
               /\ fileDom' = renderFileQueue(Q1)
               /\ pc' = "read"
               /\ cur' = p
               /\ curFile' = rest[k].file
               /\ detached' = dt
               /\ oldArr' = IF dt THEN SubSeq(rest, k + 1, Len(rest)) ELSE <<>>
               /\ saveDisabled' = saveDisabled
          ELSE /\ fileQueue' = Q2
               /\ fileDom' = renderFileQueue(Q2)
               /\ pc' = IF AllSettled(Q2, orphanCalls)
                        THEN "idle" ELSE "inferring"
               /\ cur' = 0
               /\ curFile' = NoFile
               /\ detached' = FALSE
               /\ oldArr' = <<>>
               /\ saveDisabled' = IF AllSettled(Q2, orphanCalls)
                                  THEN NoSuccess(Q2) ELSE saveDisabled
       /\ toTry' = <<>>
       /\ userPw' = NULL
       /\ runPresets' = <<>>
       /\ attempts' = <<>>
       /\ UNCHANGED <<stored, otherKind, presets, orphanCalls>>

\* variant: the analyze button is not disabled during a run
processQueueAnyTime ==
    \E apiKey \in BOOLEAN :
        IF ~apiKey
        THEN UNCHANGED vars
        ELSE Continue(fileQueue,
                      [k \in 1..Len(fileQueue) |->
                          [pos |-> k, file |-> fileQueue[k].file]],
                      FALSE)

\* click on the analyze button (enabled only while no run is active)
processQueue ==
    /\ pc = "idle"
    /\ \E apiKey \in BOOLEAN :
          IF ~apiKey
          THEN UNCHANGED vars
          ELSE Continue(fileQueue,
                        [k \in 1..Len(fileQueue) |->
                            [pos |-> k, file |-> fileQueue[k].file]],
                        FALSE)

\* variant: the failure of one item fails every item in preparation
FailWholeBatch(Q, p) ==
    [q \in 1..Len(Q) |->
        IF q = p THEN [Q[q] EXCEPT !.status = "error", !.fate = "failed"]
        ELSE IF Q[q].status = "processing"
        THEN [Q[q] EXCEPT !.status = "error"]
        ELSE Q[q]]

\* catch of Phase A: the item is marked error, the loop goes on
PhaseAFail(Q, p) ==
    IF p = 0 THEN Q
    ELSE [Q EXCEPT ![p].status = "error", ![p].fate = "failed"]

\* variant: the presets are tried before the attempt without password
PresetsFirst(ps) == ps \o <<NULL>>

\* prepareApiPayload: passwordsToTry = [null, ...presets]
PasswordsToTry(ps) == <<NULL>> \o ps

\* readFileAsArrayBuffer settles; on success prepareApiPayload starts: it
\* reads the presets, hashes the bytes and suspends in the first getDocument
ReadSettles ==
    /\ pc = "read"
    /\ \E ok \in BOOLEAN :
          IF ok /\ curFile # NoFile
          THEN /\ pc' = "open"
               /\ toTry' = PasswordsToTry(presets)
               /\ userPw' = NULL
               /\ runPresets' = presets
               /\ attempts' = <<>>
               /\ UNCHANGED <<fileQueue, fileDom, saveDisabled, stored, otherKind,
                              presets, cur, curFile, detached, oldArr,
                              orphanCalls>>
          ELSE Continue(PhaseAFail(fileQueue, cur), LoopRest, detached)

\* variant: the fingerprint is drawn per entry, not taken over its bytes
DedupCheckPerEntry(Q, p, h) ==
    LET own == IF p = 0 THEN h ELSE "h" \o Q[p].id.key
        Q1 == [Q EXCEPT ![p].apiParts = TRUE, ![p].hash = own]
        loadedItem == FindLoaded(Q1, own)
    IN IF p = 0 THEN Q
       ELSE IF loadedItem # 0
       THEN [Q1 EXCEPT ![p].result = Q1[loadedItem].result,
                       ![p].obj = Q1[loadedItem].obj,
                       ![p].status = "success",
                       ![p].loadedFromLocal = TRUE,
                       ![p].fate = "dedup"]
       ELSE Q1

\* lines 157-165 of processQueue: keep the payload and the hash, then the
\* lookup of a restored entry with the same hash; item.result =
\* loadedItem.result makes the two entries refer to one result object
DedupCheck(Q, p, h) ==
    LET Q1 == [Q EXCEPT ![p].apiParts = TRUE, ![p].hash = h]
        loadedItem == FindLoaded(Q1, h)
    IN IF p = 0 THEN Q
       ELSE IF loadedItem # 0
       THEN [Q1 EXCEPT ![p].result = Q1[loadedItem].result,
                       ![p].obj = Q1[loadedItem].obj,
                       ![p].status = "success",
                       ![p].loadedFromLocal = TRUE,
                       ![p].fate = "dedup"]
       ELSE Q1

\* one getDocument (+ processPdfDocument) of prepareApiPayload settles
OpenSettles ==
    \* error.name === 'PasswordException'
    LET IsPasswordException(out) == out = "password"
    IN  /\ pc = "open"
        /\ LET password == IF toTry # <<>> THEN Head(toTry) ELSE userPw
               out == OpenOutcome(curFile, password)
           IN IF IsPasswordException(out)
              THEN /\ attempts' = Append(attempts, password)
                   /\ pc' = IF Len(toTry) > 1 THEN "open" ELSE "prompt"
                   /\ toTry' = IF toTry # <<>> THEN Tail(toTry) ELSE <<>>
                   /\ userPw' = NULL
                   /\ UNCHANGED <<fileQueue, fileDom, saveDisabled, stored, otherKind,
                                  presets, cur, curFile, detached, oldArr,
                                  orphanCalls, runPresets>>
              ELSE Continue(IF out = "ok"
                            THEN DedupCheck(fileQueue, cur,
                                            calculateFileHash(curFile.bytes))
                            ELSE PhaseAFail(fileQueue, cur),
                            LoopRest, detached)

\* click on passwordModalSubmit while promptForPassword waits: the promise
\* resolves with dom.passwordModalInput.value and prepareApiPayload resumes
\* at `if (userPassword === null) throw`, then opens with that password
SubmitValue(value) ==
    /\ pc = "prompt"
    /\ Len(attempts) < 1 + Len(runPresets) + MaxPrompts
    /\ IF value = NULL
       THEN Continue(PhaseAFail(fileQueue, cur), LoopRest, detached)
       ELSE /\ pc' = "open"
            /\ userPw' = value
            /\ UNCHANGED <<fileQueue, fileDom, saveDisabled, stored, otherKind, presets,
                           cur, curFile, detached, oldArr, toTry, orphanCalls,
                           runPresets, attempts>>

\* the user types a password and submits
PasswordSubmit == \E value \in Passwords : SubmitValue(value)

\* the user gives up on the document: nothing is typed, the modal can only
\* be dismissed through its submit button
PasswordDecline == SubmitValue(EmptyPw)

\* what Gemini may answer: billHash missing (as good as echoed: the computed
\* hash is put in its place) or another text than the computed hash
Responses ==
    LET Banks == {"bankA"}
    IN  [billHash : {NULL, "h1"}, bankName : Banks]
\* analyzeWithGemini: a valid candidate is parsed, a missing billHash is
\* replaced by the computed hash
analyzeWithGemini(resp, hash) ==
    [resp EXCEPT !.billHash = IF @ = NULL THEN hash ELSE @]

\* variant: the callbacks share the item they write to, the first one that
\* is still waiting
SettledFirstWaiting(Q, p, ok, resp) ==
    LET first == Min(Calling(Q))
    IN IF ok
       THEN [Q EXCEPT ![first].status = "success",
                      ![first].result = analyzeWithGemini(resp, Q[first].hash),
                      ![first].apiParts = FALSE,
                      ![first].calling = FALSE,
                      ![first].fate = "inferred"]
       ELSE [Q EXCEPT ![first].status = "error",
                      ![first].apiParts = FALSE,
                      ![first].calling = FALSE,
                      ![first].fate = "failed"]

\* the callback of analysisPromises for item p has run to its end: the call
\* answered with resp (ok) or threw
Settled(Q, p, ok, resp) ==
    IF ok
    THEN [Q EXCEPT ![p].status = "success",
                   ![p].result = analyzeWithGemini(resp, Q[p].hash),
                   ![p].apiParts = FALSE,
                   ![p].calling = FALSE,
                   ![p].fate = "inferred"]
    ELSE [Q EXCEPT ![p].status = "error",
                   ![p].apiParts = FALSE,
                   ![p].calling = FALSE,
                   ![p].fate = "failed"]

\* the state after a call has settled: the run ends with the last one
\* (renderFileQueue, renderAggregatedResults, button enabled)
AfterSettle(Q, orphans) ==
    /\ fileQueue' = Q
    /\ orphanCalls' = orphans
    /\ IF pc = "inferring" /\ AllSettled(Q, orphans)
       THEN /\ pc' = "idle"
            /\ fileDom' = renderFileQueue(Q)
            /\ saveDisabled' = NoSuccess(Q)
       ELSE UNCHANGED <<pc, fileDom, saveDisabled>>
    /\ UNCHANGED <<stored, otherKind, presets, cur, curFile, detached, oldArr, toTry,
                   userPw, runPresets, attempts>>

InferenceSucceeds ==
    \E p \in Calling(fileQueue), resp \in Responses :
        AfterSettle(Settled(fileQueue, p, TRUE, resp), orphanCalls)

InferenceFails ==
    LET Failures == {"transport", "malformed", "blocked"}
    IN  \E p \in Calling(fileQueue), why \in Failures :
            AfterSettle(Settled(fileQueue, p, FALSE, NoResult), orphanCalls)

\* the call of an entry that is no longer in fileQueue settles either way
OrphanSettles ==
    /\ orphanCalls > 0
    /\ AfterSettle(fileQueue, orphanCalls - 1)

\* ------------------------------------------------------------ user actions
\* handleFiles: one entry is pushed per PDF of the drop, other files are
\* skipped; the push mutates the array in place
RECURSIVE PushFiles(_, _)
PushFiles(Q, files) ==
    IF files = <<>> THEN Q
    ELSE IF Head(files).type = "application/pdf"
    THEN PushFiles(Append(Q, UploadedEntry(randomUUID(Q), Head(files))),
                   Tail(files))
    ELSE PushFiles(Q, Tail(files))

Upload(files) ==
    LET Q1 == PushFiles(fileQueue, files)
    IN /\ Len(Q1) <= MaxQueue
       /\ fileQueue' = Q1
       /\ fileDom' = renderFileQueue(Q1)
       /\ UNCHANGED <<saveDisabled, stored, otherKind, presets, pc, cur, curFile,
                      detached, oldArr, toTry, userPw, orphanCalls,
                      runPresets, attempts>>

handleFiles ==
    \* the files the user has at hand
    LET Files ==
            {MkFile("application/pdf", "c1", NULL, FALSE),
             MkFile("application/pdf", "c2", NULL, FALSE),
             MkFile("application/pdf", "c2", NULL, TRUE),
             MkFile("application/pdf", "c1", "p1", FALSE),
             MkFile("image/png", "c1", NULL, FALSE)}
    IN  \E f \in Files : Upload(<<f>>)

\* click on a reanalyze button drawn for a row in status error
ReanalyzeClick ==
    \E row \in DOMAIN fileDom :
        /\ fileDom[row].status = "error"
        /\ LET fileItem == FindById(fileQueue, fileDom[row].id)
               Q1 == [fileQueue EXCEPT ![fileItem].status = "pending",
                                       ![fileItem].result = NoResult,
                                       ![fileItem].fate = "user"]
           IN /\ fileItem # 0
              /\ fileQueue' = Q1
              /\ fileDom' = renderFileQueue(Q1)
              /\ UNCHANGED <<saveDisabled, stored, otherKind, presets, pc, cur, curFile,
                             detached, oldArr, toTry, userPw, orphanCalls,
                             runPresets, attempts>>

\* click on a mark-failed button drawn for a row in status success
MarkFailedClick ==
    \E row \in DOMAIN fileDom :
        /\ fileDom[row].status = "success"
        /\ LET fileItem == FindById(fileQueue, fileDom[row].id)
               Q1 == [fileQueue EXCEPT ![fileItem].status = "error",
                                       ![fileItem].result = NoResult,
                                       ![fileItem].fate = "user"]
           IN /\ fileItem # 0
              /\ fileQueue' = Q1
              /\ fileDom' = renderFileQueue(Q1)
              /\ saveDisabled' = NoSuccess(Q1)
              /\ UNCHANGED <<stored, otherKind, presets, pc, cur, curFile, detached,
                             oldArr, toTry, userPw, orphanCalls, runPresets,
                             attempts>>

\* position in the new array of the object at position p of fileQueue when
\* only the positions in `keep` are kept (0: the object was taken out)
NewPos(keep, p) ==
    IF p \in keep THEN Cardinality({q \in keep : q <= p}) ELSE 0

\* the items the loop has yet to visit, after the reassignment: an item
\* taken out that is not pending will be skipped and is forgotten
RECURSIVE RestAfter(_, _)
RestAfter(rest, keep) ==
    IF rest = <<>> THEN <<>>
    ELSE LET it == Head(rest)
         IN IF it.pos = 0 \/ it.pos \in keep
            THEN <<[pos |-> NewPos(keep, it.pos), file |-> it.file]>>
                 \o RestAfter(Tail(rest), keep)
            ELSE IF fileQueue[it.pos].status = "pending"
            THEN <<[pos |-> 0, file |-> it.file]>>
                 \o RestAfter(Tail(rest), keep)
            ELSE RestAfter(Tail(rest), keep)

\* fileQueue = <new array> keeping the objects at the positions in `keep`
\* and then `added`: a suspended for-of loop stays on the array object it
\* started with, a pending call of an object taken out stays pending
Reassign(keep, added) ==
    /\ fileQueue' = [k \in 1..Cardinality(keep) |->
                        fileQueue[CHOOSE p \in keep : NewPos(keep, p) = k]]
                    \o added
    /\ IF pc \in PhaseA
       THEN /\ detached' = TRUE
            /\ oldArr' = RestAfter(LoopRest, keep)
            /\ cur' = NewPos(keep, cur)
       ELSE UNCHANGED <<detached, oldArr, cur>>
    /\ orphanCalls' = orphanCalls + Cardinality(Calling(fileQueue) \ keep)
    /\ fileDom' = renderFileQueue(fileQueue')
    /\ saveDisabled' = NoSuccess(fileQueue')
    /\ UNCHANGED <<stored, otherKind, presets, pc, curFile, toTry, userPw, runPresets,
                   attempts>>

\* click on the remove button of a row:
\* fileQueue = fileQueue.filter(item => item.id !== fileId)
RemoveClick ==
    \E row \in DOMAIN fileDom :
        /\ FindById(fileQueue, fileDom[row].id) # 0
        /\ Reassign({p \in 1..Len(fileQueue) :
                        fileQueue[p].id # fileDom[row].id}, <<>>)

\* ------------------------------------------------------- saving, restoring
\* saveAnalysisData: results of the success items grouped by bank name, in
\* order of first appearance
RECURSIVE GroupByBank(_, _)
GroupByBank(results, acc) ==
    IF results = <<>> THEN acc
    ELSE LET r == Head(results)
             groupName == BankOrUnknown(r)
             at == {g \in 1..Len(acc) : acc[g].bank = groupName}
         IN GroupByBank(Tail(results),
               IF at = {}
               THEN Append(acc, [bank |-> groupName, results |-> <<r>>])
               ELSE [acc EXCEPT ![Min(at)].results = Append(@, r)])

\* currentFileQueue.filter(item => item.status === 'success' && item.result)
SuccessfulItems(Q) ==
    LET S == {p \in 1..Len(Q) :
                 Q[p].status = "success" /\ Q[p].result # NoResult}
    IN [k \in 1..Cardinality(S) |-> Q[CHOOSE p \in S : NewPos(S, p) = k]]

\* JSON.stringify of a result, given as the value JSON.parse reads from the
\* text: a number that is not finite is written as null
stringify(result) ==
    LET Written(n) == IF n = Infinity \/ n = 0 - Infinity THEN NullAmount ELSE n
    IN  [f \in DOMAIN result |->
            IF f \in {"transactions", "deposits"}
            THEN [k \in DOMAIN result[f] |->
                     [result[f][k] EXCEPT !.amount = Written(@)]]
            ELSE IF f = "endingBalance" THEN Written(result[f])
            ELSE result[f]]

\* variant: allData = {} whatever localStorage holds
ExistingDataReset(own, other) == [own |-> <<>>, other |-> <<>>]

\* allData after the try block: JSON.parse of the text of the snapshot, the
\* subtree of this page's kind and that of the other kind ({} when
\* localStorage holds no snapshot: neither subtree)
ExistingData(own, other) == [own |-> own, other |-> other]

\* click on the save button: saveAnalysisData(kind, fileQueue).
\* localStorage.setItem is taken to succeed (no storage quota is modelled).
saveAnalysisData ==
    /\ ~saveDisabled
    /\ LET successfulItems == SuccessfulItems(fileQueue)
           dataToSaveForType ==
               GroupByBank([k \in 1..Len(successfulItems) |->
                               successfulItems[k].result], <<>>)
           \* allData[dataType] = dataToSaveForType
           allData ==
               [ExistingData(stored, otherKind) EXCEPT !.own = dataToSaveForType]
           \* JSON.stringify of the subtree of one kind
           Written(data) ==
               [g \in DOMAIN data |->
                   [bank |-> data[g].bank,
                    results |-> [k \in DOMAIN data[g].results |->
                                    stringify(data[g].results[k])]]]
       IN IF successfulItems = <<>>
          THEN UNCHANGED vars
          ELSE /\ stored' = Written(allData.own)
               /\ otherKind' = Written(allData.other)
               /\ UNCHANGED <<fileQueue, fileDom, saveDisabled, presets, pc,
                              cur, curFile, detached, oldArr, toTry, userPw,
                              orphanCalls, runPresets, attempts>>

\* Object.values(data).forEach(bankData => bankData.results.forEach(...))
RECURSIVE Flatten(_)
Flatten(data) ==
    IF data = <<>> THEN <<>> ELSE Head(data).results \o Flatten(Tail(data))

\* the entries processLoadedData pushes, one per record
RECURSIVE PushLoaded(_, _)
PushLoaded(Q, records) ==
    IF records = <<>> THEN Q
    ELSE PushLoaded(Append(Q, [LoadedEntry(randomUUID(Q), Head(records))
                                  EXCEPT !.obj = Len(Q) + 1]),
                    Tail(records))

\* variant: the records are pushed onto the queue as it is
RestoreKeepsAll(Q) == 1..Len(Q)

\* fileQueue = []: positions of the old array that survive the restore
RestoreKeeps(Q) == {}

\* handleLoadFile with the exported file (or autoLoadSavedData): the data of
\* this page's kind is handed to processLoadedData, which starts from
\* fileQueue = []
processLoadedData ==
    IF stored = <<>>
    THEN UNCHANGED vars
    ELSE Reassign(RestoreKeeps(fileQueue), PushLoaded(<<>>, Flatten(stored)))

\* ---------------------------------------------------------------- presets
\* click on addPasswordPresetButton
AddPreset ==
    \E newPassword \in Passwords :
        /\ Len(presets) < MaxPresets
        /\ newPassword \notin Range(presets)
        /\ presets' = Append(presets, newPassword)
        /\ UNCHANGED <<fileQueue, fileDom, saveDisabled, stored, otherKind, pc, cur,
                       curFile, detached, oldArr, toTry, userPw, orphanCalls,
                       runPresets, attempts>>

\* click on the x of a preset chip
RemovePreset ==
    \E passwordToRemove \in Range(presets) :
        /\ presets' = FilterSeq(presets, Range(presets) \ {passwordToRemove})
        /\ UNCHANGED <<fileQueue, fileDom, saveDisabled, stored, otherKind, pc, cur,
                       curFile, detached, oldArr, toTry, userPw, orphanCalls,
                       runPresets, attempts>>

\* ------------------------------------------------------------ result cards
\* A statementDate as written, "YYYY-MM-DD": the three numbers; NoDate is a
\* missing or unparseable one.
MkDate(y, m, d) == [y |-> y, m |-> m, d |-> d]
NoDate == MkDate(0, 0, 0)

DaysIn(y, m) ==
    LET IsLeap == (y % 4 = 0 /\ y % 100 # 0) \/ y % 400 = 0
    IN  IF m = 2 THEN (IF IsLeap THEN 29 ELSE 28)
        ELSE IF m \in {4, 6, 9, 11} THEN 30 ELSE 31

\* the calendar date a Date object holds for year y, month m, day d with
\* 1 <= d <= 31: days past the end of the month run into the next month
NewDate(y, m, d) ==
    IF d <= DaysIn(y, m) THEN MkDate(y, m, d)
    ELSE IF m = 12 THEN MkDate(y + 1, 1, d - DaysIn(y, m))
    ELSE MkDate(y, m + 1, d - DaysIn(y, m))

\* a billing month `${year}-${month}`; UnknownMonth is "未知月份"
MkMonth(y, m) == [y |-> y, m |-> m]
UnknownMonth == MkMonth(0, 0)

\* getBillingMonth(statementDateStr, cutoffDay)
getBillingMonth(statementDate, cutoff) ==
    \* date.setMonth(date.getMonth() - 1): the day of the month is kept
    LET SetPreviousMonth(date) ==
            IF date.m = 1 THEN NewDate(date.y - 1, 12, date.d)
            ELSE NewDate(date.y, date.m - 1, date.d)
    IN  IF statementDate = NoDate THEN UnknownMonth
        ELSE LET date == NewDate(statementDate.y, statementDate.m,
                                 statementDate.d)
                 shifted == IF cutoff # 0 /\ date.d < cutoff
                            THEN SetPreviousMonth(date) ELSE date
             IN MkMonth(shifted.y, shifted.m)

\* summary.js, processAllData: the month under which the summary page counts
\* a saved credit-card result (its getBillingMonth is the one of the
\* credit-card page, word for word)
processAllData(res) ==
    LET tempCutoffDay == 15
    IN  getBillingMonth(res.statementDate, tempCutoffDay)

MonthText(month) ==
    \* month.toString().padStart(2, '0') and the text of a billing month
    LET Pad2(n) == IF n < 10 THEN "0" \o ToString(n) ELSE ToString(n)
    IN  IF month = UnknownMonth THEN "unknown"
        ELSE ToString(month.y) \o "-" \o Pad2(month.m)

\* a line item of result.transactions; texts are sequences of characters
MkItem(d, s, a) == [date |-> d, description |-> s, amount |-> a]

\* an analysis result with its line items
MkResult(h, b, d, tx) ==
    [billHash |-> h, bankName |-> b, statementDate |-> d, transactions |-> tx]

\* reduce((sum, x) => sum + (x || 0), 0)
RECURSIVE SumSeq(_)
SumSeq(ns) ==
    IF ns = <<>> THEN 0
    ELSE LET x == IF Head(ns) = NullAmount THEN 0 ELSE Head(ns)
             rest == SumSeq(Tail(ns))
         IN IF x = Infinity \/ rest = Infinity THEN Infinity ELSE x + rest

\* the numbers of S in increasing order
RECURSIVE SeqOfSet(_)
SeqOfSet(S) ==
    IF S = {} THEN <<>> ELSE <<Min(S)>> \o SeqOfSet(S \ {Min(S)})

\* fileQueue.filter(...) as the positions kept, in order
KeptItems(Q, S) ==
    [k \in 1..Cardinality(S) |-> Q[CHOOSE p \in S : NewPos(S, p) = k]]

\* Object.keys(monthlyGroups).sort().reverse()
RECURSIVE SortedMonths(_)
SortedMonths(M) ==
    \* Object.keys(monthlyGroups).sort().reverse(): later months first, the
    \* unknown month before every dated one
    LET MonthBefore(a, b) ==
            IF a = UnknownMonth THEN b # UnknownMonth
            ELSE b # UnknownMonth /\ (a.y > b.y \/ (a.y = b.y /\ a.m > b.m))
    IN  IF M = {} THEN <<>>
        ELSE LET first == CHOOSE a \in M : \A b \in M \ {a} : MonthBefore(a, b)
             IN <<first>> \o SortedMonths(M \ {first})

\* the keys of bankGroups in createMonthSection, in order of insertion
RECURSIVE BankNames(_, _)
BankNames(items, acc) ==
    IF items = <<>> THEN acc
    ELSE LET bankName == BankOrUnknown(Head(items).result)
         IN BankNames(Tail(items),
                      IF bankName \in Range(acc) THEN acc
                      ELSE Append(acc, bankName))

\* bankGroups[bankName].transactions for the items at `positions` of Q
RECURSIVE BankRows(_, _, _)
BankRows(Q, positions, bankName) ==
    \* item.result.transactions.map((tx, index) =>
    \*     ({...tx, originalIndex: `${item.id}_${index}`})): a copy of every line
    \* item with the key of its cells and of its delete button.  `src` is a
    \* history field: the position in the queue of the object `item`.
    LET KeyedRows(item, src) ==
            [k \in 1..Len(item.result.transactions) |->
                [id |-> item.id, index |-> k - 1, tx |-> item.result.transactions[k],
                 src |-> src]]
    IN  IF positions = <<>> THEN <<>>
        ELSE (IF BankOrUnknown(Q[Head(positions)].result) = bankName
              THEN KeyedRows(Q[Head(positions)], Head(positions)) ELSE <<>>)
             \o BankRows(Q, Tail(positions), bankName)

\* (item.result.transactions || []).reduce((s, tx) => s + (tx.amount || 0), 0)
TxSum(result) ==
    SumSeq([k \in 1..Len(result.transactions) |->
               result.transactions[k].amount])

\* updateSubtotals: item.result.bankName === bankName
SubtotalMatches(result, bankName) == result.bankName = bankName

\* updateSubtotals(bankName, month): the figure written into the tfoot of
\* the transactions table of the card
updateSubtotals(Q, bankName, month, cutoff) ==
    LET S == {p \in 1..Len(Q) :
                 /\ Q[p].status = "success"
                 /\ Q[p].result # NoResult
                 /\ SubtotalMatches(Q[p].result, bankName)
                 /\ getBillingMonth(Q[p].result.statementDate, cutoff) = month}
        itemsForThisBankInMonth == KeptItems(Q, S)
    IN SumSeq([k \in 1..Len(itemsForThisBankInMonth) |->
                  TxSum(itemsForThisBankInMonth[k].result)])

\* renderMonthlyChart(month, items): totalSpending, the amounts above zero
\* of the items that have a result
Spending(item) ==
    IF item.result = NoResult THEN 0
    ELSE SumSeq([k \in 1..Len(item.result.transactions) |->
                    IF item.result.transactions[k].amount > 0
                    THEN item.result.transactions[k].amount ELSE 0])

renderMonthlyChart(items) ==
    SumSeq([k \in 1..Len(items) |-> Spending(items[k])])

\* monthlyGroups[month]: the successful items of a billing month, as
\* positions of the queue and as items
MonthPositions(Q, month, cutoff) ==
    {p \in 1..Len(Q) :
        /\ Q[p].status = "success"
        /\ Q[p].result # NoResult
        /\ getBillingMonth(Q[p].result.statementDate, cutoff) = month}

MonthItems(Q, month, cutoff) == KeptItems(Q, MonthPositions(Q, month, cutoff))

\* createMonthSection followed by updateSubtotals for each of its cards
MonthCards(Q, month, cutoff) ==
    LET items == MonthItems(Q, month, cutoff)
        names == BankNames(items, <<>>)
    IN [b \in 1..Len(names) |->
           [month |-> month, bank |-> names[b],
            rows |-> BankRows(Q, SeqOfSet(MonthPositions(Q, month, cutoff)),
                              names[b]),
            subtotal |-> updateSubtotals(Q, names[b], month, cutoff),
            sortKey |-> "date", direction |-> "asc"]]

RECURSIVE AllCards(_, _, _)
AllCards(Q, months, cutoff) ==
    IF months = <<>> THEN <<>>
    ELSE MonthCards(Q, Head(months), cutoff)
         \o AllCards(Q, Tail(months), cutoff)

\* renderAggregatedResults: what it leaves in the container; the chart of a
\* month section is drawn by the timer createMonthSection sets, which runs
\* before any later event
Aggregated(Q, cutoff) ==
    LET successfulResults == SuccessfulItems(Q)
        sortedMonths ==
            SortedMonths({getBillingMonth(
                              successfulResults[k].result.statementDate,
                              cutoff) : k \in 1..Len(successfulResults)})
    IN [cards |-> AllCards(Q, sortedMonths, cutoff),
        totals |-> [m \in 1..Len(sortedMonths) |->
                       [month |-> sortedMonths[m],
                        total |-> renderMonthlyChart(
                            MonthItems(Q, sortedMonths[m], cutoff))]]]

renderAggregatedResults(Q, cutoff) ==
    /\ saveDisabled' = NoSuccess(Q)
    /\ cards' = Aggregated(Q, cutoff).cards
    /\ totals' = Aggregated(Q, cutoff).totals

\* ------------------------------------------------------- the page's events
\* The variables of the analysis pipeline, which no event of the result
\* cards touches.
pipeVars == <<presets, pc, cur, curFile, detached, oldArr, toTry, userPw,
              orphanCalls, runPresets, attempts>>

\* bounds of the result cards
MaxEntries == 3
MaxItems == 2

\* JSON values of a snapshot file: the result records are the leaves
JNull == [t |-> "null"]
JAbsent == [t |-> "undefined"]
JArray(items) == [t |-> "array", items |-> items]
\* a bank's entry { results: ... }
JBank(results) == [t |-> "object", results |-> results]
\* the content of a document kind: the values of its keys, in order
JKind(values) == [t |-> "object", values |-> values]
\* the top-level object with its creditCard key
JData(creditCard) == [t |-> "object", creditCard |-> creditCard]

\* a file offered to the load area: its MIME type, whether its text is
\* JSON, and the value the text denotes
MkSnapshot(type, json, data) == [type |-> type, json |-> json, data |-> data]

Item1 == MkItem(<<"0", "3", "/", "0", "5">>, <<"s">>, 7)
Result1 == MkResult("h1", "bankA", MkDate(2025, 3, 10), <<Item1>>)
Item2 == MkItem(<<"0", "3", "/", "0", "2">>, <<"t">>, 5)
Result3 == MkResult("h3", NULL, MkDate(2025, 3, 20), <<Item1>>)

\* the file saveAnalysisData writes for the results rs of one bank
WellFormed(rs) ==
    MkSnapshot("application/json", TRUE, JData(JKind(<<JBank(JArray(rs))>>)))

MalformedSnapshots ==
    LET JNumber == [t |-> "number"]
    IN  {MkSnapshot("text/plain", TRUE, JData(JKind(<<JBank(JArray(<<Result1>>))>>))),
         MkSnapshot("application/json", FALSE, JNull),
         MkSnapshot("application/json", TRUE, JNumber),
         MkSnapshot("application/json", TRUE, JNull),
         MkSnapshot("application/json", TRUE, JData(JAbsent)),
         MkSnapshot("application/json", TRUE, JData(JNumber)),
         MkSnapshot("application/json", TRUE, JData(JArray(<<>>))),
         MkSnapshot("application/json", TRUE, JData(JKind(<<JNumber>>))),
         MkSnapshot("application/json", TRUE, JData(JKind(<<JNull>>))),
         MkSnapshot("application/json", TRUE, JData(JKind(<<JBank(JNumber)>>))),
         MkSnapshot("application/json", TRUE, JData(JKind(<<JBank(JAbsent)>>))),
         MkSnapshot("application/json", TRUE,
                    JData(JKind(<<JBank(JArray(<<JNull>>))>>)))}

\* loadAnalysisData(file): the promise is rejected for a file of another
\* type, for a text JSON.parse throws on, and for a value that is not an
\* object (typeof data !== 'object' || data === null)
Rejected(file) ==
    \/ file.type # "application/json"
    \/ ~file.json
    \/ file.data.t \notin {"object", "array"}

\* bankData.results.forEach(res => fileQueue.push(...)): res.billHash of a
\* null record is a TypeError
RECURSIVE PushResults(_, _)
PushResults(walk, results) ==
    IF results = <<>> \/ walk.threw THEN walk
    ELSE IF Head(results) = JNull
    THEN [walk EXCEPT !.threw = TRUE]
    ELSE PushResults(
             [walk EXCEPT !.queue =
                 Append(@, [LoadedEntry(randomUUID(@), Head(results))
                               EXCEPT !.obj = Len(walk.queue) + 1])],
             Tail(results))

\* Object.values(data).forEach(bankData => ...): bankData.results of null
\* is a TypeError, a bankData without an array of results is passed over
RECURSIVE LoadWalk(_, _)
LoadWalk(walk, values) ==
    IF values = <<>> \/ walk.threw THEN walk
    ELSE LET bankData == Head(values)
         IN IF bankData = JNull THEN [walk EXCEPT !.threw = TRUE]
            ELSE IF bankData.t = "object" /\ bankData.results.t = "array"
            THEN LoadWalk(PushResults(walk, bankData.results.items),
                          Tail(values))
            ELSE LoadWalk(walk, Tail(values))

\* handleLoadFile(file): loadAnalysisData, then processLoadedData with the
\* content for credit cards.  An exception thrown while the records are
\* pushed ends in the catch of handleLoadFile, after fileQueue = [] and
\* before renderFileQueue.
handleLoadFile(file) ==
    \* Object.values(data) of an object or an array
    LET ValuesOf(data) == IF data.t = "array" THEN data.items ELSE data.values
        \* fullData ? fullData.creditCard : null
        KindData(data) == IF data.t = "object" THEN data.creditCard ELSE JAbsent
        data == KindData(file.data)
        walk == LoadWalk([queue |-> <<>>, threw |-> FALSE],
                         ValuesOf(data))
    IN IF Rejected(file) \/ data.t \notin {"object", "array"}
       THEN UNCHANGED vars
       ELSE /\ Len(walk.queue) <= MaxEntries
            /\ fileQueue' = walk.queue
            /\ IF walk.threw
               THEN UNCHANGED <<fileDom, saveDisabled, cards, totals>>
               ELSE /\ fileDom' = renderFileQueue(walk.queue)
                    /\ renderAggregatedResults(walk.queue, cutoffDay)
            /\ UNCHANGED <<stored, otherKind, cutoffDay, footer,
                           pdfDoc, payload, pipeVars>>

LoadForView ==
    \* the files at hand when the buttons of the cards are exercised
    LET ViewSnapshots ==
            LET Result2 == MkResult("h2", "bankA", MkDate(2025, 3, 20), <<Item1, Item2>>)
            IN  MalformedSnapshots
                \cup {WellFormed(rs) : rs \in {<<Result1>>, <<Result1, Result2>>,
                                                <<Result3>>, <<Result1, Result1>>}}
    IN  \E file \in ViewSnapshots : handleLoadFile(file)
LoadForEdit ==
    \* the files at hand when the cells are edited
    LET EditSnapshots ==
            {MkSnapshot("application/json", FALSE, JNull)}
            \cup {WellFormed(rs) : rs \in {<<Result1>>, <<Result1, Result3>>}}
    IN  \E file \in EditSnapshots : handleLoadFile(file)

\* the texts a cell can be left with, as sequences of characters
EditTexts == {<<"1", ",", "2", "3", "4">>, <<"a", "b", "c">>}

DigitChars == {ToString(n) : n \in 0..9}
DigitValue(ch) == CHOOSE n \in 0..9 : ToString(n) = ch

\* value.replace(/,/g, '')
RECURSIVE StripCommas(_)
StripCommas(text) ==
    IF text = <<>> THEN <<>>
    ELSE (IF Head(text) = "," THEN <<>> ELSE <<Head(text)>>)
         \o StripCommas(Tail(text))

RECURSIVE SkipSpaces(_)
SkipSpaces(text) ==
    IF text # <<>> /\ Head(text) = " " THEN SkipSpaces(Tail(text)) ELSE text

\* the value of the longest prefix of decimal digits, read after `acc`
RECURSIVE ReadDigits(_, _)
ReadDigits(text, acc) ==
    IF text # <<>> /\ Head(text) \in DigitChars
    THEN ReadDigits(Tail(text), 10 * acc + DigitValue(Head(text)))
    ELSE acc

\* `manual-${month}-${bankName}`
ManualId(month, bankName) ==
    [kind |-> "manual", key |-> MonthText(month) \o "-" \o bankName]

\* { date: '', description: '手動新增', amount: 0, category: '其他' }
NewEntry == MkItem(<<>>, <<"m">>, 0)

\* array.splice(itemIndex, 1), itemIndex counted from 0
Splice(seq, itemIndex) ==
    [k \in 1..(Len(seq) - (IF itemIndex < Len(seq) THEN 1 ELSE 0)) |->
        IF k <= itemIndex THEN seq[k] ELSE seq[k + 1]]

\* handleLoadFile with the file saveAnalysisData wrote, or autoLoadSavedData:
\* processLoadedData draws the queue and the cards
RestoreRedraw ==
    /\ processLoadedData
    /\ renderAggregatedResults(fileQueue', cutoffDay)
    /\ UNCHANGED <<cutoffDay, footer, pdfDoc, payload>>

\* click on mark-failed: the queue and the cards are drawn again
MarkFailedRedraw ==
    /\ MarkFailedClick
    /\ renderAggregatedResults(fileQueue', cutoffDay)
    /\ UNCHANGED <<cutoffDay, footer, pdfDoc, payload>>

\* click on remove: the queue and the cards are drawn again
RemoveRedraw ==
    /\ RemoveClick
    /\ renderAggregatedResults(fileQueue', cutoffDay)
    /\ UNCHANGED <<cutoffDay, footer, pdfDoc, payload>>

\* click on reanalyze: only the queue is drawn again
ReanalyzeNoRedraw == ReanalyzeClick /\ UNCHANGED <<viewVars, pdfDoc, payload>>

\* click on the delete button of a row of a transactions table
DeleteRow(c, r) ==
        LET fileId == cards[c].rows[r].id
            itemIndex == cards[c].rows[r].index
            fileItem == FindById(fileQueue, fileId)
        IN IF fileItem # 0 /\ fileQueue[fileItem].result # NoResult
           THEN LET Q1 == WriteResult(fileQueue, fileItem,
                              [fileQueue[fileItem].result EXCEPT
                                  !.transactions = Splice(@, itemIndex)])
                IN /\ fileQueue' = Q1
                   /\ renderAggregatedResults(Q1, cutoffDay)
                   /\ UNCHANGED <<fileDom, stored, otherKind, cutoffDay, footer,
                                  pdfDoc, payload, pipeVars>>
           ELSE UNCHANGED vars

DeleteRowClick ==
    \E c \in DOMAIN cards : \E r \in DOMAIN cards[c].rows : DeleteRow(c, r)

\* The add-row handler of card c: the queue it leaves.  The synthetic
\* entry is looked up by id and pushed when there is none; pushing the new
\* line item onto the table of an entry whose result is null is a
\* TypeError, and the handler ends there.
AddRowThrows(c) ==
    LET found == FindById(fileQueue, ManualId(cards[c].month, cards[c].bank))
    IN found # 0 /\ fileQueue[found].result = NoResult

AddRowQueue(c) ==
    \* the entry the add-row handler fabricates
    LET ManualEntry(month, bankName, cutoff) ==
            \* month + '-' + String(cutoffDay).padStart(2, '0'): "NaN" in place of the
            \* day makes a date that does not parse
            LET ManualDate ==
                    IF month = UnknownMonth \/ cutoff = 0 THEN NoDate
                    ELSE MkDate(month.y, month.m, cutoff)
            IN  [id |-> ManualId(month, bankName), file |-> NoFile, status |-> "success",
                 result |-> MkResult(NULL, bankName, ManualDate, <<>>),
                 hash |-> NULL, loadedFromLocal |-> TRUE, apiParts |-> FALSE,
                 calling |-> FALSE, fate |-> "new", obj |-> 0]
        month == cards[c].month
        bankName == cards[c].bank
        found == FindById(fileQueue, ManualId(month, bankName))
        Q0 == IF found # 0 THEN fileQueue
              ELSE Append(fileQueue, ManualEntry(month, bankName, cutoffDay))
        manualFileItem == IF found # 0 THEN found ELSE Len(Q0)
    IN IF AddRowThrows(c) THEN fileQueue
       ELSE [Q0 EXCEPT ![manualFileItem].result.transactions =
                Append(@, NewEntry)]

AddRowClick ==
    \* click on the add button in the foot of the transactions table of card c
    LET AddRow(c) ==
            LET Q1 == AddRowQueue(c)
            IN /\ Len(Q1) <= MaxEntries
               /\ IF AddRowThrows(c)
                  THEN UNCHANGED vars
                  ELSE /\ \A p \in 1..Len(Q1) :
                             Q1[p].result # NoResult =>
                                 Len(Q1[p].result.transactions) <= MaxItems
                       /\ fileQueue' = Q1
                       /\ renderAggregatedResults(Q1, cutoffDay)
                       /\ UNCHANGED <<fileDom, stored, otherKind, cutoffDay, footer,
                                      pdfDoc, payload, pipeVars>>
    IN  \E c \in DOMAIN cards : AddRow(c)

\* the fields of a row that are edited in place
EditFields == {"amount", "description"}

\* a cell of a row loses the focus with `value` as its text.  The month's
\* items are filtered by reading item.result.statementDate of every queue
\* item: with an item whose result is null that is a TypeError, and the
\* handler ends before renderMonthlyChart.
Blur(c, r, field, value) ==
    \* parseFloat on whole numbers: leading blanks, a sign, then the literal
    \* Infinity or the longest run of digits; NaN when neither is there
    LET parseFloat(text) ==
            LET Num(n) == [nan |-> FALSE, n |-> n]
                \* a Number: NaN or a whole number
                NaN == [nan |-> TRUE, n |-> 0]
                t == SkipSpaces(text)
                signed == t # <<>> /\ Head(t) \in {"-", "+"}
                body == IF signed THEN Tail(t) ELSE t
                literal == <<"I", "n", "f", "i", "n", "i", "t", "y">>
            IN IF /\ Len(body) >= Len(literal)
                  /\ SubSeq(body, 1, Len(literal)) = literal
               THEN Num(IF signed /\ Head(t) = "-" THEN 0 - Infinity
                        ELSE Infinity)
               ELSE IF body = <<>> \/ Head(body) \notin DigitChars THEN NaN
               ELSE IF signed /\ Head(t) = "-"
               THEN Num(0 - ReadDigits(body, 0))
               ELSE Num(ReadDigits(body, 0))
        \* fileQueue.filter(item =>
        \*     getBillingMonth(item.result.statementDate, cutoffDay) === month)
        BlurMonthItems(Q, month, cutoff) ==
            KeptItems(Q, {p \in 1..Len(Q) :
                             getBillingMonth(Q[p].result.statementDate, cutoff)
                                 = month})
        \* the value the blur handler stores in originalItem[field]:
        \* isNaN(parsedValue) ? 0 : parsedValue for the amount, the text otherwise
        EditedValue ==
            IF field = "amount"
            THEN LET parsedValue == parseFloat(StripCommas(value))
                 IN IF parsedValue.nan THEN 0 ELSE parsedValue.n
            ELSE value
        bankName == cards[c].bank
        month == cards[c].month
        itemIndex == cards[c].rows[r].index
        fileItem == FindById(fileQueue, cards[c].rows[r].id)
    IN IF \/ fileItem = 0
          \/ fileQueue[fileItem].result = NoResult
          \/ itemIndex >= Len(fileQueue[fileItem].result.transactions)
       THEN UNCHANGED vars
       ELSE LET Q1 == WriteResult(fileQueue, fileItem,
                          [fileQueue[fileItem].result EXCEPT
                              !.transactions[itemIndex + 1][field] =
                                  EditedValue])
            IN /\ fileQueue' = Q1
               /\ cards' = [cards EXCEPT ![c].subtotal =
                      updateSubtotals(Q1, bankName, month, cutoffDay)]
               /\ IF \E p \in 1..Len(Q1) : Q1[p].result = NoResult
                  THEN UNCHANGED totals
                  ELSE totals' =
                         [m \in 1..Len(totals) |->
                             IF totals[m].month = month
                             THEN [totals[m] EXCEPT !.total =
                                      renderMonthlyChart(BlurMonthItems(
                                          Q1, month, cutoffDay))]
                             ELSE totals[m]]
               /\ UNCHANGED <<fileDom, saveDisabled, stored, otherKind, cutoffDay,
                              footer, pdfDoc, payload, pipeVars>>

BlurEdit ==
    \E c \in DOMAIN cards : \E r \in DOMAIN cards[c].rows :
        \E field \in EditFields : \E value \in EditTexts :
            Blur(c, r, field, value)

\* the cell of an amount is left with a number, or with the word Infinity
BlurAmount ==
    LET AmountTexts == {<<"9">>, <<"I", "n", "f", "i", "n", "i", "t", "y">>}
    IN  \E c \in DOMAIN cards : \E r \in DOMAIN cards[c].rows :
            \E value \in AmountTexts : Blur(c, r, "amount", value)

\* the cutoff-day input changes to `value`: the cards are drawn again when
\* some item has status success
SetCutoff(value) ==
    /\ cutoffDay' = value
    /\ IF \E p \in 1..Len(fileQueue) : fileQueue[p].status = "success"
       THEN renderAggregatedResults(fileQueue, value)
       ELSE UNCHANGED <<saveDisabled, cards, totals>>
    /\ UNCHANGED <<fileQueue, fileDom, stored, otherKind, footer,
                   pdfDoc, payload, pipeVars>>

CutoffChange ==
    \* the values of the cutoff-day input: 0 stands for an empty input (NaN)
    LET Cutoffs == {0, 15}
    IN  \E value \in Cutoffs \ {cutoffDay} : SetCutoff(value)

\* any day of a month typed into the cutoff-day input, or the input emptied
CutoffInput == \E value \in (0..31) \ {cutoffDay} : SetCutoff(value)

\* the page showing one restored statement, no cutoff day entered
InitMonth ==
    \* the statement dates of the billing-month check: every day of a December,
    \* a January, a February and a March, in a leap year and in a common year
    LET StatementDates ==
            {date \in {MkDate(y, m, d) : y \in {2024, 2025}, m \in {1, 2, 3, 12},
                                         d \in 1..31} :
                date.d <= DaysIn(date.y, date.m)}
    IN  /\ \E date \in StatementDates :
              fileQueue = <<LoadedEntry(1, MkResult("h1", "bankA", date,
                                                    <<Item1>>))>>
        /\ fileDom = renderFileQueue(fileQueue)
        /\ saveDisabled = FALSE
        /\ stored = <<>>
        /\ otherKind = <<>>
        /\ presets = <<>>
        /\ pc = "idle"
        /\ cur = 0
        /\ curFile = NoFile
        /\ detached = FALSE
        /\ oldArr = <<>>
        /\ toTry = <<>>
        /\ userPw = NULL
        /\ orphanCalls = 0
        /\ runPresets = <<>>
        /\ attempts = <<>>
        /\ cutoffDay = 0
        /\ footer = NoFooter
        /\ pdfDoc = <<>>
        /\ payload = [apiParts |-> <<>>, hash |-> NULL]
        /\ cards = Aggregated(fileQueue, cutoffDay).cards
        /\ totals = Aggregated(fileQueue, cutoffDay).totals

\* ---------------------------------------------- the bank-statement page
\* the pieces of a text between its underscores; a text is a sequence of
\* tokens, and only the token "_" holds an underscore
RECURSIVE Split(_, _)
Split(text, piece) ==
    IF text = <<>> THEN <<piece>>
    ELSE IF Head(text) = "_" THEN <<piece>> \o Split(Tail(text), <<>>)
    ELSE Split(Tail(text), Append(piece, Head(text)))

\* the text of an entry id
IdText(id) ==
    \* the text of a bank name
    LET BankText(bankName) ==
            IF bankName = "bank_B" THEN <<"bank", "_", "B">> ELSE <<bankName>>
    IN  IF id.kind = "manual"
        THEN <<"manual", "-", MonthText(id.month), "-">> \o BankText(id.bank)
        ELSE <<id.kind, "-", id.key>>

\* const [fileId, type, itemIndexStr] = index.split('_')
DecodeKey(index) ==
    \* parseInt(itemIndexStr, 10) of a piece of a key, -1 standing for NaN
    LET ParseIndex(piece) ==
            IF Len(piece) = 1 /\ piece[1] \in DigitChars
            THEN DigitValue(piece[1]) ELSE -1
        pieces == Split(index, <<>>)
    IN [fileId |-> pieces[1],
        itemIndex |-> IF Len(pieces) >= 3 THEN ParseIndex(pieces[3]) ELSE -1]

\* fileQueue.find(i => i.id === fileId) for the text of an id
FindByText(Q, fileId) ==
    LET hits == {p \in 1..Len(Q) : IdText(Q[p].id) = fileId}
    IN IF hits = {} THEN 0 ELSE Min(hits)

\* getBillingMonth(statementDateStr) of this page: no cutoff day
StatementMonth(statementDate) ==
    IF statementDate = NoDate THEN UnknownMonth
    ELSE LET date == NewDate(statementDate.y, statementDate.m,
                             statementDate.d)
         IN MkMonth(date.y, date.m)

StatementPositions(Q, month) ==
    {p \in 1..Len(Q) :
        /\ Q[p].status = "success"
        /\ Q[p].result # NoResult
        /\ StatementMonth(Q[p].result.statementDate) = month}

RECURSIVE BankDeposits(_, _, _)
BankDeposits(Q, positions, bankName) ==
    \* item.result.deposits.map((tx, i) =>
    \*     ({...tx, originalIndex: `${item.id}_d_${i}`})); `src` and `index` are
    \* history fields: where the line item is in the queue
    LET DepositRows(item, src) ==
            \* `${item.id}_d_${i}`
            LET DepositKey(id, i) == IdText(id) \o <<"_", "d", "_", ToString(i)>>
            IN  [k \in 1..Len(item.result.deposits) |->
                    [key |-> DepositKey(item.id, k - 1), tx |-> item.result.deposits[k],
                     src |-> src, index |-> k - 1]]
    IN  IF positions = <<>> THEN <<>>
        ELSE (IF BankOrUnknown(Q[Head(positions)].result) = bankName
              THEN DepositRows(Q[Head(positions)], Head(positions)) ELSE <<>>)
             \o BankDeposits(Q, Tail(positions), bankName)

\* populateAndRenderMonth: the cards of a month, each with the subtotal
\* updateSubtotals(card, bankData) sums over the rows of the card
StatementCards(Q, month) ==
    LET positions == SeqOfSet(StatementPositions(Q, month))
        names == BankNames(KeptItems(Q, StatementPositions(Q, month)), <<>>)
    IN [b \in 1..Len(names) |->
           LET rows == BankDeposits(Q, positions, names[b])
           IN [month |-> month, bank |-> names[b], rows |-> rows,
               subtotal |-> SumSeq([k \in 1..Len(rows) |-> rows[k].tx.amount]),
               sortKey |-> "date", direction |-> "asc"]]

RECURSIVE AllStatementCards(_, _)
AllStatementCards(Q, months) ==
    IF months = <<>> THEN <<>>
    ELSE StatementCards(Q, Head(months))
         \o AllStatementCards(Q, Tail(months))

\* monthlyChartData.deposit.total of a month
DepositTotal(Q, month) ==
    LET items == KeptItems(Q, StatementPositions(Q, month))
    IN SumSeq([k \in 1..Len(items) |->
          SumSeq([j \in 1..Len(items[k].result.deposits) |->
                     IF items[k].result.deposits[j].amount > 0
                     THEN items[k].result.deposits[j].amount ELSE 0])])

\* a > b for two Date objects: false when either is an Invalid Date
DateAfter(a, b) ==
    /\ a # NoDate
    /\ b # NoDate
    /\ \/ a.y > b.y
       \/ a.y = b.y /\ a.m > b.m
       \/ a.y = b.y /\ a.m = b.m /\ a.d > b.d

\* latestStatements after successfulResults.forEach: per account key the
\* queue position of the statement held, in order of insertion
RECURSIVE LatestStatements(_, _, _)
LatestStatements(Q, positions, latest) ==
    \* `${item.result.bankName}-${item.result.accountNumber}`
    LET AccountKey(result) ==
            result.bankName \o "-"
            \o (IF result.accountNumber = NULL THEN "undefined"
                ELSE result.accountNumber)
        \* currentStatementDate > new Date(latestStatements[accountKey]...)
        Replaces(current, held) == DateAfter(current, held)
    IN  IF positions = <<>> THEN latest
        ELSE LET item == Q[Head(positions)]
                 at == {k \in 1..Len(latest) :
                           latest[k].key = AccountKey(item.result)}
             IN LatestStatements(Q, Tail(positions),
                   IF at = {}
                   THEN Append(latest, [key |-> AccountKey(item.result),
                                        pos |-> Head(positions)])
                   ELSE IF Replaces(item.result.statementDate,
                                    Q[latest[Min(at)].pos].result.statementDate)
                   THEN [latest EXCEPT ![Min(at)].pos = Head(positions)]
                   ELSE latest)

\* item.result.endingBalance || 0
EndingBalance(result) ==
    IF "endingBalance" \in DOMAIN result THEN result.endingBalance ELSE 0

\* renderAggregatedResults of this page
renderStatements(Q) ==
    \* renderTotalBalanceFooter
    LET renderTotalBalanceFooter ==
            LET S == {p \in 1..Len(Q) :
                         Q[p].status = "success" /\ Q[p].result # NoResult}
                latest == LatestStatements(Q, SeqOfSet(S), <<>>)
            IN IF S = {} THEN [text |-> "prompt", total |-> 0]
               ELSE [text |-> "total",
                     total |-> SumSeq([k \in 1..Len(latest) |->
                                         EndingBalance(Q[latest[k].pos].result)])]
        successfulResults == SuccessfulItems(Q)
        sortedMonths ==
            SortedMonths({StatementMonth(
                              successfulResults[k].result.statementDate) :
                          k \in 1..Len(successfulResults)})
    IN /\ saveDisabled' = NoSuccess(Q)
       /\ cards' = AllStatementCards(Q, sortedMonths)
       /\ totals' = [m \in 1..Len(sortedMonths) |->
                        [month |-> sortedMonths[m],
                         total |-> DepositTotal(Q, sortedMonths[m])]]
       /\ footer' = renderTotalBalanceFooter
       /\ UNCHANGED <<pdfDoc, payload>>

LoadStatementFile ==
    LET Statements ==
            \* A result of the bank-statement analysis; of its two tables the deposits
            \* are kept, the withdrawals go through the same code.
            LET MkStatement(h, b, a, d, e, dp) ==
                    [billHash |-> h, bankName |-> b, accountNumber |-> a,
                     statementDate |-> d, endingBalance |-> e, deposits |-> dp]
                Statement4 ==
                    MkStatement("h4", "bank_B", "a2", MkDate(2025, 3, 10), 4, <<Item1>>)
                Statement3 == MkStatement("h3", "bankA", "a1", NoDate, 3, <<>>)
                Statement2 ==
                    MkStatement("h2", "bankA", "a1", MkDate(2025, 4, 10), 9, <<Item1, Item2>>)
                Statement1 ==
                    MkStatement("h1", "bankA", "a1", MkDate(2025, 3, 10), 5, <<Item1>>)
            IN  {Statement1, Statement2, Statement3, Statement4}
        \* handleLoadFile with a snapshot holding the statements `records`
        LoadStatements(records) ==
            LET Q1 == PushLoaded(<<>>, records)
            IN /\ fileQueue' = Q1
               /\ fileDom' = renderFileQueue(Q1)
               /\ renderStatements(Q1)
               /\ UNCHANGED <<stored, otherKind, cutoffDay, pipeVars>>
        \* the records of the snapshots at hand: one or two statements in any order
        StatementLists ==
            {<<a>> : a \in Statements}
            \cup {l \in {<<a, b>> : a \in Statements, b \in Statements} :
                      l[1] # l[2]}
    IN  \E records \in StatementLists : LoadStatements(records)

\* click on the add button in the foot of a deposits table
AddDepositClick ==
    \* `manual-${month}-${bankName}`: the month and the bank are kept next to
    \* the string
    LET ManualBankId(month, bankName) ==
            [kind |-> "manual", key |-> MonthText(month) \o "-" \o bankName,
             month |-> month, bank |-> bankName]
        \* the entry the add-row handler of this page fabricates: the statement
        \* date is month + '-01'
        ManualStatement(month, bankName) ==
            [id |-> ManualBankId(month, bankName), file |-> NoFile,
             status |-> "success",
             result |-> [billHash |-> NULL, bankName |-> bankName,
                         accountNumber |-> NULL,
                         statementDate |-> IF month = UnknownMonth THEN NoDate
                                           ELSE MkDate(month.y, month.m, 1),
                         deposits |-> <<>>],
             hash |-> NULL, loadedFromLocal |-> TRUE, apiParts |-> FALSE,
             calling |-> FALSE, fate |-> "new", obj |-> 0]
    IN  \E c \in DOMAIN cards :
            LET month == cards[c].month
                bankName == cards[c].bank
                found == FindByText(fileQueue,
                                    IdText(ManualBankId(month, bankName)))
                Q0 == IF found # 0 THEN fileQueue
                      ELSE Append(fileQueue, ManualStatement(month, bankName))
                manualFileItem == IF found # 0 THEN found ELSE Len(Q0)
            IN /\ Len(Q0) <= MaxEntries
               /\ IF Q0[manualFileItem].result = NoResult
                  THEN UNCHANGED vars
                  ELSE LET Q1 == [Q0 EXCEPT ![manualFileItem].result.deposits =
                                               Append(@, NewEntry)]
                       IN /\ Len(Q0[manualFileItem].result.deposits) < MaxItems
                          /\ fileQueue' = Q1
                          /\ renderStatements(Q1)
                          /\ UNCHANGED <<fileDom, stored, otherKind, cutoffDay, pipeVars>>

DeleteDepositClick ==
    \* click on the delete button of a row of a deposits table
    LET DeleteDeposit(c, r) ==
            \* array.splice(itemIndex, 1) with the index parseInt gave: NaN counts
            \* as 0
            LET SpliceAt(seq, itemIndex) == Splice(seq, IF itemIndex < 0 THEN 0 ELSE itemIndex)
                decoded == DecodeKey(cards[c].rows[r].key)
                fileItem == FindByText(fileQueue, decoded.fileId)
            IN IF fileItem # 0 /\ fileQueue[fileItem].result # NoResult
               THEN LET Q1 == WriteResult(fileQueue, fileItem,
                                  [fileQueue[fileItem].result EXCEPT
                                      !.deposits =
                                          SpliceAt(@, decoded.itemIndex)])
                    IN /\ fileQueue' = Q1
                       /\ renderStatements(Q1)
                       /\ UNCHANGED <<fileDom, stored, otherKind, cutoffDay, pipeVars>>
               ELSE UNCHANGED vars
    IN  \E c \in DOMAIN cards : \E r \in DOMAIN cards[c].rows :
            DeleteDeposit(c, r)

\* click on remove in the queue of this page
RemoveStatement ==
    /\ RemoveClick
    /\ renderStatements(fileQueue')
    /\ UNCHANGED cutoffDay

\* ------------------------------------------------------------------ sorting
\* a > b for two strings
RECURSIVE TextAfter(_, _)
TextAfter(a, b) ==
    LET CharCode(ch) ==
            \* the characters of the texts at hand, in the order of their code units
            LET Alphabet ==
                    <<",", "-", "/", "0", "1", "2", "3", "4", "5", "6", "7", "8", "9",
                      "T", "a", "b", "c", "m", "s", "t">>
            IN  CHOOSE n \in 1..Len(Alphabet) : Alphabet[n] = ch
    IN  IF a = <<>> THEN FALSE
        ELSE IF b = <<>> THEN TRUE
        ELSE IF Head(a) # Head(b) THEN CharCode(Head(a)) > CharCode(Head(b))
        ELSE TextAfter(Tail(a), Tail(b))

\* parseDate of handleSort: new Date(0) for an empty text; a text "MM/DD"
\* or "MM-DD" is read as that day of 2001; any other text at hand is not a
\* date
parseDate(str) ==
    IF str = <<>> THEN MkDate(1970, 1, 1)
    ELSE IF /\ Len(str) = 5
            /\ str[3] \in {"/", "-"}
            /\ \A k \in {1, 2, 4, 5} : str[k] \in DigitChars
            /\ ReadDigits(SubSeq(str, 1, 2), 0) \in 1..12
            /\ ReadDigits(SubSeq(str, 4, 5), 0) \in 1..31
    THEN NewDate(2001, ReadDigits(SubSeq(str, 1, 2), 0),
                 ReadDigits(SubSeq(str, 4, 5), 0))
    ELSE NoDate

\* valA > valB in the comparator of handleSort: dates as the times they
\* parse to (no comparison with an Invalid Date is true), strings in lower
\* case, numbers as they are
ValueAfter(a, b, sortBy) ==
    LET toLowerCase(str) ==
            [k \in DOMAIN str |-> IF str[k] = "T" THEN "t" ELSE str[k]]
    IN  IF sortBy = "date"
        THEN DateAfter(parseDate(a.date), parseDate(b.date))
        ELSE IF sortBy = "amount" THEN a.amount > b.amount
        ELSE TextAfter(toLowerCase(a[sortBy]), toLowerCase(b[sortBy]))

\* variant: the direction is not applied to the comparison
CompareAscending(a, b, sortBy, direction) ==
    IF ValueAfter(a, b, sortBy) THEN 1
    ELSE IF ValueAfter(b, a, sortBy) THEN -1 ELSE 0

\* the comparator: 1, -1 or 0, negated for the direction desc
Compare(a, b, sortBy, direction) ==
    LET comparison == IF ValueAfter(a, b, sortBy) THEN 1
                      ELSE IF ValueAfter(b, a, sortBy) THEN -1 ELSE 0
    IN IF direction = "asc" THEN comparison ELSE 0 - comparison

\* Array.prototype.sort, which is stable: the rows are put one by one
\* behind the last row already placed that does not compare greater
RECURSIVE StableSort(_, _, _, _)
StableSort(rows, sorted, sortBy, direction) ==
    IF rows = <<>> THEN sorted
    ELSE LET row == Head(rows)
             notAfter == {j \in 1..Len(sorted) :
                             Compare(sorted[j].tx, row.tx, sortBy, direction)
                                 <= 0}
             at == IF notAfter = {} THEN 0
                   ELSE CHOOSE j \in notAfter : \A i \in notAfter : i <= j
         IN StableSort(Tail(rows),
                       SubSeq(sorted, 1, at) \o <<row>>
                           \o SubSeq(sorted, at + 1, Len(sorted)),
                       sortBy, direction)

\* click on the header `sortBy` of the transactions table of card c
handleSort(c, sortBy) ==
    LET direction == IF cards[c].sortKey = sortBy
                     THEN (IF cards[c].direction = "asc" THEN "desc"
                           ELSE "asc")
                     ELSE "asc"
        rows == cards[c].rows
        cmp(i, j) == Compare(rows[i].tx, rows[j].tx, sortBy, direction)
        \* the comparator is consistent for the rows: what Array.prototype.sort
        \* needs for the order to be defined; otherwise the order is whatever
        \* the engine leaves
        consistent ==
            \A i \in DOMAIN rows : \A j \in DOMAIN rows : \A k \in DOMAIN rows :
                /\ (cmp(i, j) = 0 /\ cmp(j, k) = 0) => cmp(i, k) = 0
                /\ (cmp(i, j) < 0 /\ cmp(j, k) < 0) => cmp(i, k) < 0
                /\ (cmp(i, j) > 0 /\ cmp(j, k) > 0) => cmp(i, k) > 0
        orders ==
            IF consistent THEN {StableSort(rows, <<>>, sortBy, direction)}
            ELSE {[k \in DOMAIN rows |-> rows[q[k]]] :
                     q \in {f \in [DOMAIN rows -> DOMAIN rows] :
                               \A i \in DOMAIN rows : \A j \in DOMAIN rows :
                                   i # j => f[i] # f[j]}}
    IN /\ \E sorted \in orders :
              cards' = [cards EXCEPT ![c].sortKey = sortBy,
                                     ![c].direction = direction,
                                     ![c].rows = sorted]
       /\ UNCHANGED <<fileQueue, fileDom, saveDisabled, stored, otherKind, cutoffDay,
                      totals, footer, pdfDoc, payload, pipeVars>>

HeaderClick ==
    \* the sortable headers of the transactions table, for the fields a line
    \* item carries here
    LET SortColumns == {"date", "description", "amount"}
    IN  \E c \in DOMAIN cards : \E sortBy \in SortColumns : handleSort(c, sortBy)

\* bound of the lists that are sorted
MaxRows == 3

\* the page showing one restored statement with any of the lists
InitSort ==
    LET SortLists ==
            \* the line items of the lists that are sorted: two days, no date and
            \* a text that is no date; a description in upper case
            LET SortItems ==
                    {MkItem(d, x[1], x[2]) :
                        d \in {<<"0", "3", "/", "0", "5">>, <<"0", "3", "/", "0", "2">>,
                               <<>>, <<"a", "b", "c">>},
                        x \in {<< <<"s">>, 7 >>, << <<"T">>, 5 >>}}
            IN  UNION {[1..n -> SortItems] : n \in 1..MaxRows}
    IN  /\ \E list \in SortLists :
              fileQueue = <<LoadedEntry(1, MkResult("h1", "bankA",
                                                    MkDate(2025, 3, 10), list))>>
        /\ fileDom = renderFileQueue(fileQueue)
        /\ saveDisabled = FALSE
        /\ stored = <<>>
        /\ otherKind = <<>>
        /\ presets = <<>>
        /\ pc = "idle"
        /\ cur = 0
        /\ curFile = NoFile
        /\ detached = FALSE
        /\ oldArr = <<>>
        /\ toTry = <<>>
        /\ userPw = NULL
        /\ orphanCalls = 0
        /\ runPresets = <<>>
        /\ attempts = <<>>
        /\ cutoffDay = 0
        /\ cards = Aggregated(fileQueue, cutoffDay).cards
        /\ totals = Aggregated(fileQueue, cutoffDay).totals
        /\ footer = NoFooter
        /\ pdfDoc = <<>>
        /\ payload = [apiParts |-> <<>>, hash |-> NULL]

\* ------------------------------------------------------ processPdfDocument
\* A text is a sequence of characters.  CJK stands for one character of
\* U+4000..U+9FA5, the characters /[\u4000-\u9fa5]/g matches.
CJK == "cjk"

\* Where the match of a pattern of sanitizedText that starts at position p
\* of the text ends (the position after it), 0 when none starts there.
MatchAt(pattern, text, p) ==
    LET Upper == {"A", "B", "C", "D", "E", "F", "G", "H", "I", "J", "K", "L",
                  "M", "N", "O", "P", "Q", "R", "S", "T", "U", "V", "W", "X",
                  "Y", "Z"}
        Lower == {"a", "b", "c", "d", "e", "f", "g", "h", "i", "j", "k", "l",
                  "m", "n", "o", "p", "q", "r", "s", "t", "u", "v", "w", "x",
                  "y", "z"}
        Digit == {"0", "1", "2", "3", "4", "5", "6", "7", "8", "9"}
        \* \b: exactly one of the characters before and at position k is a \w
        IsWord(k) ==
            k \in DOMAIN text /\ text[k] \in Upper \cup Lower \cup Digit \cup {"_"}
        WordBoundary(k) == IsWord(k - 1) # IsWord(k)
        \* \d{n} at position k (k = 0: what comes before did not match)
        Digits(k, n) ==
            IF /\ k > 0
               /\ k + n - 1 <= Len(text)
               /\ \A j \in k..(k + n - 1) : text[j] \in Digit
            THEN k + n ELSE 0
        \* [- ]? at position k
        Separator(k) ==
            IF k > 0 /\ k <= Len(text) /\ text[k] \in {"-", " "}
            THEN k + 1 ELSE k
        \* one or two given characters at position k
        OneOf(k, chars) ==
            IF k > 0 /\ k <= Len(text) /\ text[k] \in chars THEN k + 1 ELSE 0
        Bounded(end) ==
            IF end > 0 /\ WordBoundary(p) /\ WordBoundary(end) THEN end ELSE 0
    IN  IF pattern = "id"
        THEN \* /[A-Z][12]\d{8}/
             Digits(OneOf(OneOf(p, Upper), {"1", "2"}), 8)
        ELSE IF pattern = "card"
        THEN \* /\b\d{4}[- ]?\d{4}[- ]?\d{4}[- ]?\d{4}\b/
             Bounded(Digits(Separator(Digits(Separator(Digits(Separator(
                         Digits(p, 4)), 4)), 4)), 4))
        ELSE \* /\b09\d{2}[- ]?\d{3}[- ]?\d{3}\b/
             Bounded(Digits(Separator(Digits(Separator(Digits(
                         OneOf(OneOf(p, {"0"}), {"9"}), 2)), 3)), 3))

\* String.prototype.replace with a /g pattern: the matches are taken from the
\* left, each search starting where the last match ended
RECURSIVE ReplaceFrom(_, _, _, _)
ReplaceFrom(text, p, pattern, replacement) ==
    LET starts == {q \in p..Len(text) : MatchAt(pattern, text, q) > 0}
    IN  IF starts = {} THEN SubSeq(text, p, Len(text))
        ELSE SubSeq(text, p, Min(starts) - 1) \o <<replacement>>
             \o ReplaceFrom(text, MatchAt(pattern, text, Min(starts)), pattern,
                            replacement)

\* fullText: the items of every page joined by ' ', a '\n' after each page
RECURSIVE fullText(_)
fullText(doc) ==
    LET RECURSIVE Join(_)
        Join(items) ==
            IF items = <<>> THEN <<>>
            ELSE IF Len(items) = 1 THEN items[1]
            ELSE items[1] \o <<" ">> \o Join(Tail(items))
    IN  IF doc = <<>> THEN <<>>
        ELSE fullText(SubSeq(doc, 1, Len(doc) - 1))
             \o Join(doc[Len(doc)]) \o <<"\n">>

\* a count of every character, whatever its script
CharCount(text) == Len(text)

\* meaningfulChars.length
meaningfulCharCount(text) == Cardinality({k \in DOMAIN text : text[k] = CJK})

processPdfDocument(doc, hash) ==
    LET \* canvas.toDataURL('image/jpeg') of the page drawn at scale 3.0
        Rendered(i) == [page |-> i, scale |-> 3, processed |-> FALSE]
        preprocessImage(base64Data) == [base64Data EXCEPT !.processed = TRUE]
        imageParts ==
            [i \in 1..Len(doc) |->
                [inlineData |-> [mimeType |-> "image/jpeg",
                                 data |-> preprocessImage(Rendered(i))]]]
        sanitizedText ==
            ReplaceFrom(ReplaceFrom(ReplaceFrom(fullText(doc), 1, "id",
                                                "[id removed]"),
                                    1, "card", "[card removed]"),
                        1, "phone", "[phone removed]")
    IN  \* getPromptFunction(hash) is the `prompt` of the text part
        IF meaningfulCharCount(fullText(doc)) < 150
        THEN [apiParts |-> <<[text |-> [prompt |-> hash, task |-> "ocr",
                                        body |-> fullText(doc)]]>>
                           \o imageParts,
              hash |-> hash]
        ELSE [apiParts |-> <<[text |-> [prompt |-> hash, task |-> "text",
                                        body |-> sanitizedText]]>>,
              hash |-> hash]

\* The documents processPdfDocument is applied to: text of about the
\* threshold's length on the first page, and on every page a line with
\* numbers of the kinds that are removed, or that come close.
MaxPages == 2

InitDoc ==
    LET Run(n) == [k \in 1..n |-> CJK]
        D8 == <<"2", "3", "4", "5", "6", "7", "8", "9">>
        D4 == <<"4", "3", "1", "1">>
        Lines ==
            {<<>>,
             <<"A", "1">> \o D8,
             <<"a", "1">> \o D8,
             D4 \o D4 \o D4 \o D4,
             D4 \o <<"-">> \o D4 \o <<" ">> \o D4 \o <<"-">> \o D4,
             <<CJK>> \o D4 \o D4 \o D4 \o D4 \o <<CJK>>,
             D4 \o D4 \o D4 \o D4 \o <<"7">>,
             <<"0", "9", "1", "2", "-", "3", "4", "5", "-", "6", "7", "8">>,
             <<"0", "9">> \o D8,
             <<"A", "1">> \o D8 \o <<"0", "9">> \o D8,
             <<"x", "0", "9">> \o D8,
             D4 \o <<" ">> \o D4 \o <<" ">> \o D4
                \o <<" ", "0", "9", "1", "2", " ", "3", "4", "5", " ", "6", "7", "8">>,
             D4 \o <<" ">> \o D4 \o <<" ">> \o D4 \o <<" ">> \o D4 \o <<" ">>
                \o D4}
        Documents ==
            {[i \in 1..n |-> IF i = 1 THEN <<Run(c), line>> ELSE <<line>>] :
                n \in 1..MaxPages, c \in {0, 148, 149, 150, 151}, line \in Lines}
    IN  /\ pdfDoc \in Documents
        /\ payload = [apiParts |-> <<>>, hash |-> NULL]
        /\ fileQueue = <<>>
        /\ fileDom = <<>>
        /\ saveDisabled = TRUE
        /\ stored = <<>>
        /\ otherKind = <<>>
        /\ presets = <<>>
        /\ pc = "idle"
        /\ cur = 0
        /\ curFile = NoFile
        /\ detached = FALSE
        /\ oldArr = <<>>
        /\ toTry = <<>>
        /\ userPw = NULL
        /\ orphanCalls = 0
        /\ runPresets = <<>>
        /\ attempts = <<>>
        /\ cutoffDay = 0
        /\ cards = <<>>
        /\ totals = <<>>
        /\ footer = NoFooter

\* prepareApiPayload: return await processPdfDocument(pdfDoc, hash, ...)
ProcessDocument ==
    LET Hashes == {calculateFileHash(c) : c \in Contents}
    IN  /\ payload.apiParts = <<>>
        /\ \E hash \in Hashes : payload' = processPdfDocument(pdfDoc, hash)
        /\ UNCHANGED <<fileQueue, fileDom, saveDisabled, stored, otherKind, pipeVars,
                       viewVars, pdfDoc>>

\* ---------------------------------------------------------- the end of a run
\* processQueue suspended in Promise.allSettled: every item of the batch was
\* prepared and its call is under way
InitSettle ==
    /\ \E n \in 1..MaxEntries : \E bytes \in [1..n -> Contents] :
          fileQueue =
              [p \in 1..n |->
                  [UploadedEntry(p, MkFile("application/pdf", bytes[p], NULL,
                                           FALSE))
                      EXCEPT !.status = "processing",
                             !.hash = calculateFileHash(bytes[p]),
                             !.apiParts = TRUE,
                             !.calling = TRUE,
                             !.fate = "taken"]]
    /\ fileDom = renderFileQueue(fileQueue)
    /\ saveDisabled = TRUE
    /\ stored = <<>>
    /\ otherKind = <<>>
    /\ presets = <<>>
    /\ pc = "inferring"
    /\ cur = 0
    /\ curFile = NoFile
    /\ detached = FALSE
    /\ oldArr = <<>>
    /\ toTry = <<>>
    /\ userPw = NULL
    /\ orphanCalls = 0
    /\ runPresets = <<>>
    /\ attempts = <<>>
    /\ cutoffDay = 0
    /\ cards = <<>>
    /\ totals = <<>>
    /\ footer = NoFooter
    /\ pdfDoc = <<>>
    /\ payload = [apiParts |-> <<>>, hash |-> NULL]

\* one call settles with one of `answers` or fails; after the last one the
\* queue and the cards are drawn
SettleWith(answers) ==
    /\ \E p \in Calling(fileQueue), ok \in BOOLEAN, resp \in answers :
           AfterSettle(Settled(fileQueue, p, ok, resp), orphanCalls)
    /\ IF pc' = "idle"
       THEN renderAggregatedResults(fileQueue', cutoffDay)
       ELSE UNCHANGED <<cards, totals>>
    /\ UNCHANGED <<cutoffDay, footer, pdfDoc, payload>>

SettleCall ==
    \* what Gemini may answer for a statement: with or without billHash and
    \* bankName, one or two transactions
    LET Answers ==
            {MkResult(h, b, MkDate(2025, 3, 10), tx) :
                h \in {NULL, "h1"}, b \in {NULL, "bankA"},
                tx \in {<<Item1>>, <<Item1, Item2>>}}
    IN  SettleWith(Answers)

\* a step of processQueue up to the dispatch of the calls; the step that
\* ends the run draws the queue and the cards
RunRedraw ==
    /\ processQueue \/ ReadSettles \/ OpenSettles
    /\ IF pc' = "idle"
       THEN renderAggregatedResults(fileQueue', cutoffDay)
       ELSE UNCHANGED <<cards, totals>>
    /\ UNCHANGED <<cutoffDay, footer, pdfDoc, payload>>

\* ------------------------------------------------------------ specification
\* The queue and the analysis pipeline; the result cards are left out.
Next ==
    \/ handleFiles /\ UNCHANGED <<viewVars, pdfDoc, payload>>
    \/ processQueue /\ UNCHANGED <<viewVars, pdfDoc, payload>>
    \/ ReadSettles /\ UNCHANGED <<viewVars, pdfDoc, payload>>
    \/ OpenSettles /\ UNCHANGED <<viewVars, pdfDoc, payload>>
    \/ PasswordSubmit /\ UNCHANGED <<viewVars, pdfDoc, payload>>
    \/ PasswordDecline /\ UNCHANGED <<viewVars, pdfDoc, payload>>
    \/ InferenceSucceeds /\ UNCHANGED <<viewVars, pdfDoc, payload>>
    \/ InferenceFails /\ UNCHANGED <<viewVars, pdfDoc, payload>>
    \/ OrphanSettles /\ UNCHANGED <<viewVars, pdfDoc, payload>>
    \/ ReanalyzeClick /\ UNCHANGED <<viewVars, pdfDoc, payload>>
    \/ MarkFailedClick /\ UNCHANGED <<viewVars, pdfDoc, payload>>
    \/ RemoveClick /\ UNCHANGED <<viewVars, pdfDoc, payload>>
    \/ saveAnalysisData /\ UNCHANGED <<viewVars, pdfDoc, payload>>
    \/ processLoadedData /\ UNCHANGED <<viewVars, pdfDoc, payload>>

Spec == Init /\ [][Next]_vars

handleProtectedFiles ==
    \* The password handling alone: protected documents, presets that change
    \* between and during runs, no removal and no restore.
    LET ProtectedFiles ==
            {MkFile("application/pdf", "c1", NULL, FALSE),
             MkFile("application/pdf", "c1", "p1", FALSE),
             MkFile("application/pdf", "c2", "p2", FALSE),
             MkFile("application/pdf", "c2", "p1", TRUE)}
    IN  \E f \in ProtectedFiles : Upload(<<f>>)

SpecPw ==
    Init /\ [][
        \/ handleProtectedFiles /\ UNCHANGED <<viewVars, pdfDoc, payload>>
        \/ AddPreset /\ UNCHANGED <<viewVars, pdfDoc, payload>>
        \/ RemovePreset /\ UNCHANGED <<viewVars, pdfDoc, payload>>
        \/ processQueue /\ UNCHANGED <<viewVars, pdfDoc, payload>>
        \/ ReadSettles /\ UNCHANGED <<viewVars, pdfDoc, payload>>
        \/ OpenSettles /\ UNCHANGED <<viewVars, pdfDoc, payload>>
        \/ PasswordSubmit /\ UNCHANGED <<viewVars, pdfDoc, payload>>
        \/ PasswordDecline /\ UNCHANGED <<viewVars, pdfDoc, payload>>
        \/ InferenceSucceeds /\ UNCHANGED <<viewVars, pdfDoc, payload>>
        \/ InferenceFails /\ UNCHANGED <<viewVars, pdfDoc, payload>>
    ]_vars

\* The credit-card page after a snapshot was loaded: the queue buttons, the
\* buttons of the result cards and the cutoff day, with no analysis running.
SpecView ==
    Init /\ [][
        \/ LoadForView
        \/ MarkFailedRedraw
        \/ RemoveRedraw
        \/ ReanalyzeNoRedraw
        \/ DeleteRowClick
        \/ AddRowClick
        \/ CutoffChange
    ]_vars

\* The credit-card page after a snapshot was loaded: the cells of the result
\* cards are edited in place.
SpecEdit ==
    Init /\ [][
        \/ LoadForEdit
        \/ MarkFailedRedraw
        \/ BlurEdit
        \/ CutoffChange
    ]_vars

\* The bank-statement page after a snapshot was loaded, with no analysis
\* running.
SpecBank ==
    Init /\ [][
        \/ LoadStatementFile
        \/ AddDepositClick
        \/ DeleteDepositClick
        \/ RemoveStatement
    ]_vars

\* One statement on display while the cutoff day is changed.
SpecMonth == InitMonth /\ [][CutoffInput]_vars

\* One table on display while its headers are clicked.
SpecSort == InitSort /\ [][HeaderClick]_vars

\* One table on display while its headers are clicked and its rows are
\* deleted.
SpecResort == InitSort /\ [][HeaderClick \/ DeleteRowClick]_vars

\* A batch whose calls are under way, until the last one has settled.
SpecSettle == InitSettle /\ [][SettleCall]_vars

\* The credit-card page while amounts are edited and the results are saved
\* and restored.
SpecRound ==
    Init /\ [][\/ LoadForEdit
               \/ BlurAmount
               \/ saveAnalysisData /\ UNCHANGED <<viewVars, pdfDoc, payload>>
               \/ RestoreRedraw]_vars

\* The credit-card page from the upload of a statement to the edit of its
\* line items and the sort of its table, with a save, a restore and a second
\* upload of the same file in between.
SpecShare ==
    Init /\ [][
        \/ Upload(<<MkFile("application/pdf", "c1", NULL, FALSE)>>)
               /\ UNCHANGED <<viewVars, pdfDoc, payload>>
        \/ RunRedraw
        \/ SettleWith({Result1})
        \/ saveAnalysisData /\ UNCHANGED <<viewVars, pdfDoc, payload>>
        \/ RestoreRedraw
        \/ BlurAmount
        \/ DeleteRowClick
        \/ HeaderClick
    ]_vars

\* The page opened on a localStorage in which the page of the other document
\* kind has or has not saved its results before.
InitSave ==
    LET MkStatement(h, b, e) ==
            [billHash |-> h, bankName |-> b, accountNumber |-> "a1",
             statementDate |-> MkDate(2025, 3, 10), endingBalance |-> e,
             deposits |-> <<Item1>>]
        \* the bank-statement subtrees at hand, the second one with an ending
        \* balance that was written as null, under two bank names
        OtherSubtrees ==
            {<<>>,
             <<[bank |-> "bankA", results |-> <<MkStatement("h5", "bankA", 5)>>]>>,
             <<[bank |-> "bankA", results |-> <<MkStatement("h5", "bankA", 5)>>],
               [bank |-> "bank_B",
                results |-> <<MkStatement("h6", "bank_B", NullAmount)>>]>>}
    IN  /\ otherKind \in OtherSubtrees
        /\ fileQueue = <<>>
        /\ fileDom = <<>>
        /\ saveDisabled \in BOOLEAN
        /\ stored = <<>>
        /\ presets = <<>>
        /\ pc = "idle"
        /\ cur = 0
        /\ curFile = NoFile
        /\ detached = FALSE
        /\ oldArr = <<>>
        /\ toTry = <<>>
        /\ userPw = NULL
        /\ orphanCalls = 0
        /\ runPresets = <<>>
        /\ attempts = <<>>
        /\ cutoffDay = 0
        /\ cards = <<>>
        /\ totals = <<>>
        /\ footer = NoFooter
        /\ pdfDoc = <<>>
        /\ payload = [apiParts |-> <<>>, hash |-> NULL]

\* The credit-card page from the upload of statements to the save of their
\* results, with entries marked as failed or sent back to analysis in between.
SpecSave ==
    InitSave /\ [][
        \/ Upload(<<MkFile("application/pdf", "c1", NULL, FALSE)>>)
               /\ UNCHANGED <<viewVars, pdfDoc, payload>>
        \/ RunRedraw
        \/ SettleWith({Result1, Result3})
        \/ saveAnalysisData /\ UNCHANGED <<viewVars, pdfDoc, payload>>
        \/ MarkFailedRedraw
        \/ ReanalyzeNoRedraw
    ]_vars

\* One opened document, until its payload was made.
SpecDoc == InitDoc /\ [][ProcessDocument]_vars

TypeOK ==
    LET Statuses == {"pending", "processing", "success", "error"}
    IN  /\ \A p \in 1..Len(fileQueue) : fileQueue[p].status \in Statuses
        /\ pc \in {"idle", "inferring"} \cup PhaseA
        /\ cur \in 0..Len(fileQueue)
        /\ Len(fileDom) = Len(fileQueue)

\* ------------------------------------------------------------------ claims
Positions == 1..Len(fileQueue)

\* the password the suspended getDocument was given
CurrentPassword == IF toTry # <<>> THEN Head(toTry) ELSE userPw

\* a step in which the preparation of the current item succeeds
PrepareSucceeds ==
    /\ OpenSettles
    /\ cur # 0
    /\ OpenOutcome(curFile, CurrentPassword) = "ok"

\* the flagged entries other than the current item that carry its hash
OtherLoaded ==
    {q \in Positions \ {cur} :
        /\ fileQueue[q].loadedFromLocal
        /\ fileQueue[q].hash = calculateFileHash(curFile.bytes)}

\* C1: when the preparation of an item ends with hash h while another entry
\* of the queue is flagged loaded-from-storage with hash h, the item becomes
\* success and flagged, holds the result of such an entry, and no inference
\* call is dispatched for it.
C1_DedupShortCircuit ==
    [][(PrepareSucceeds /\ OtherLoaded # {}) =>
          /\ fileQueue'[cur].status = "success"
          /\ fileQueue'[cur].loadedFromLocal
          /\ fileQueue'[cur].result \in
                 {fileQueue[q].result : q \in OtherLoaded}
          /\ ~fileQueue'[cur].calling]_vars

\* C2: while an inference call is outstanding for an entry, no other entry
\* with the same hash is success or has a call outstanding: content that
\* was analysed, or is being analysed, is not sent again.
C2_NoSecondInference ==
    \A p \in Positions, q \in Positions :
        (p # q /\ fileQueue[p].calling
              /\ fileQueue[q].hash = fileQueue[p].hash) =>
            (fileQueue[q].status # "success" /\ ~fileQueue[q].calling)

\* C9: the saved snapshot holds no record twice and no two restored entries
\* of the queue carry the same hash.
C9_NoDuplicateRecords ==
    /\ \A i \in 1..Len(Flatten(stored)), j \in 1..Len(Flatten(stored)) :
           i # j => Flatten(stored)[i].billHash # Flatten(stored)[j].billHash
    /\ \A p \in Positions, q \in Positions :
           (p # q /\ fileQueue[p].file = NoFile /\ fileQueue[q].file = NoFile)
               => fileQueue[p].hash # fileQueue[q].hash

\* the status changes an entry may go through, and the click the two
\* backward ones need; an entry that stays success is not given a result
\* anew
StatusStep(e, f) ==
    \/ e.status = f.status /\ (e.status = "success" => f.result = e.result)
    \/ e.status = "pending" /\ f.status = "processing"
    \/ e.status = "processing" /\ f.status \in {"success", "error"}
    \/ e.status = "error" /\ f.status = "pending" /\ ReanalyzeClick
    \/ e.status = "success" /\ f.status = "error" /\ MarkFailedClick

\* C4: in every step that keeps the entry objects in place (every step but
\* a removal or a restore), the status of each entry is unchanged or moves
\* along pending->processing, processing->success, processing->error,
\* error->pending on a reanalyze click, success->error on a mark-failed
\* click.
C4_StatusTransitions ==
    [][~(RemoveClick \/ processLoadedData) =>
          \A p \in Positions : StatusStep(fileQueue[p], fileQueue'[p])]_vars

\* C7: when the user declines the password prompt for a document, the
\* entry becomes error and no further open attempt or prompt follows for
\* it: the loop moves on to the next item or Phase A ends.
C7_DeclineEndsPipeline ==
    [][PasswordDecline =>
          /\ pc' \notin {"open", "prompt"}
          /\ cur # 0 => fileQueue'[cur].status = "error"]_vars

\* a step of processQueue in which the item at position p fails
FailureOf(p) ==
    /\ ReadSettles \/ OpenSettles \/ PasswordSubmit \/ PasswordDecline
          \/ InferenceFails
    /\ fileQueue[p].status = "processing"
    /\ fileQueue'[p].status = "error"

\* what the last word on each entry was, against its status
FateMatchesStatus ==
    \A p \in Positions :
        /\ fileQueue[p].fate = "failed" => fileQueue[p].status = "error"
        /\ fileQueue[p].fate \in {"dedup", "inferred"}
              => fileQueue[p].status = "success"
        /\ fileQueue[p].status = "error"
              => fileQueue[p].fate \in {"failed", "user"}
        /\ pc = "idle" => fileQueue[p].fate # "taken"

\* C3: the failure of one item of a run leaves every other entry as it is,
\* or lets it move on in the run (the next pending item is taken); exactly
\* the items that failed, or that the user marked, are in status error, an
\* item that was deduplicated or analysed is success, and when the run is
\* over every item it took has ended in one of the two.
C3_FailureIsolation ==
    /\ [][\A p \in Positions : FailureOf(p) =>
             \A q \in Positions \ {p} :
                 /\ fileQueue'[q].result = fileQueue[q].result
                 /\ \/ fileQueue'[q].status = fileQueue[q].status
                    \/ /\ fileQueue[q].status = "pending"
                       /\ fileQueue'[q].status = "processing"]_vars
    /\ []FateMatchesStatus

\* a run is over with one item failed and one analysed
C3_Witness ==
    /\ pc = "idle"
    /\ \E p \in Positions, q \in Positions :
           fileQueue[p].fate = "failed" /\ fileQueue[q].fate = "inferred"

\* C5: while a preparation step of Phase A is outstanding no inference call
\* is outstanding; at most one item, the current one, is in preparation;
\* a call is outstanding only for an item whose own preparation completed
\* (payload and hash set) and left it in status processing.
C5_PhasesOrdered ==
    /\ (Calling(fileQueue) # {} \/ orphanCalls > 0) => pc = "inferring"
    /\ \A p \in Positions :
           /\ fileQueue[p].calling =>
                 /\ fileQueue[p].status = "processing"
                 /\ fileQueue[p].apiParts
                 /\ fileQueue[p].hash # NULL
           /\ (fileQueue[p].status = "processing" /\ ~fileQueue[p].apiParts)
                 => (pc \in PhaseA /\ p = cur)

\* Phase B with two calls outstanding
C5_Witness == pc = "inferring" /\ Cardinality(Calling(fileQueue)) = 2

\* C6: the step that completes a run (aggregates drawn, button enabled)
\* leaves no inference call outstanding and no entry in status processing.
C6_CompletionAfterAllSettled ==
    [][(pc # "idle" /\ pc' = "idle") =>
          /\ Calling(fileQueue') = {}
          /\ orphanCalls' = 0
          /\ \A p \in 1..Len(fileQueue') :
                 fileQueue'[p].status # "processing"]_vars

\* a run is over after two calls have settled
C6_Witness ==
    /\ pc = "idle"
    /\ Len(fileQueue) = 2
    /\ \A p \in Positions : fileQueue[p].fate = "inferred"

\* the passwords getDocument was given for the current document, the one
\* of the suspended attempt included
Tried == IF pc = "open" THEN Append(attempts, CurrentPassword) ELSE attempts

\* C8: for the document in preparation the open attempts are, in order, no
\* password, the presets stored when the preparation began in list order,
\* then passwords from the prompt; every attempt before the current one
\* failed with a password failure; the prompt is up only after the attempt
\* without password and every preset failed.
C8_AttemptOrder ==
    pc \in {"open", "prompt"} =>
        LET order == <<NULL>> \o runPresets
        IN /\ \A k \in 1..Len(Tried) :
                  IF k <= Len(order) THEN Tried[k] = order[k]
                  ELSE Tried[k] \in Passwords \cup {EmptyPw}
           /\ \A k \in 1..Len(attempts) :
                  OpenOutcome(curFile, attempts[k]) = "password"
           /\ pc = "prompt" => Len(attempts) >= Len(order)

\* a second password from the prompt is tried after the attempt without
\* password, one preset and a first password from the prompt have failed
C8_Witness ==
    /\ pc = "open"
    /\ Len(runPresets) = 1
    /\ Len(attempts) = 3

\* C10: a restore from a snapshot with records leaves in the queue exactly
\* one entry per record, in the order of the snapshot, each success, with
\* the record as result, flagged loaded-from-storage and rebuilt (no entry
\* with an uploaded file remains).
C10_RestoreReplacesQueue ==
    [][(processLoadedData /\ stored # <<>>) =>
          LET records == Flatten(stored)
          IN /\ Len(fileQueue') = Len(records)
             /\ \A k \in 1..Len(fileQueue') :
                    /\ fileQueue'[k].status = "success"
                    /\ fileQueue'[k].result = records[k]
                    /\ fileQueue'[k].loadedFromLocal
                    /\ fileQueue'[k].file = NoFile]_vars

\* the queue after a restore of a snapshot with two records
C10_Witness ==
    /\ Len(fileQueue) = 2
    /\ \A p \in Positions :
           /\ fileQueue[p].file = NoFile
           /\ fileQueue[p].fate = "new"
           /\ fileQueue[p].status = "success"

\* ---------------------------------------------------------------- snapshots
\* C11: a malformed snapshot (a file that is not JSON, a value that is not
\* an object, or an object whose credit-card content does not map banks to
\* { results: [...] }) is rejected and the load leaves the queue as it was.
C11_MalformedLoadRejected ==
    [][\A file \in MalformedSnapshots :
          handleLoadFile(file) => fileQueue' = fileQueue]_vars

\* --------------------------------------------------------------- aggregates
\* the entries that count: status success and a result
Counted(p) ==
    fileQueue[p].status = "success" /\ fileQueue[p].result # NoResult

\* the sum of the amounts of the line items shown in the table of the card
\* of `bankName` in `month`, computed from the queue
FreshSubtotal(bankName, month) ==
    LET S == {p \in 1..Len(fileQueue) :
                 /\ Counted(p)
                 /\ BankOrUnknown(fileQueue[p].result) = bankName
                 /\ getBillingMonth(fileQueue[p].result.statementDate,
                                    cutoffDay) = month}
    IN SumSeq([k \in 1..Cardinality(S) |->
                  TxSum(KeptItems(fileQueue, S)[k].result)])

\* the spending of a month, computed from the queue
FreshSpending(month) ==
    LET S == {p \in 1..Len(fileQueue) :
                 /\ Counted(p)
                 /\ getBillingMonth(fileQueue[p].result.statementDate,
                                    cutoffDay) = month}
    IN SumSeq([k \in 1..Cardinality(S) |->
                  Spending(KeptItems(fileQueue, S)[k])])

\* C12: every displayed aggregate, the subtotal of each table and the total
\* spending of each month, equals the value computed from scratch over the
\* entries of the queue that have status success and a result.
C12_AggregatesDerived ==
    /\ \A c \in DOMAIN cards :
           cards[c].subtotal = FreshSubtotal(cards[c].bank, cards[c].month)
    /\ \A m \in DOMAIN totals :
           totals[m].total = FreshSpending(totals[m].month)

\* -------------------------------------------------------------------- edits
\* the number the texts of EditTexts stand for: "1,234" is 1234, "abc" is
\* not a number and gives 0
ClaimedAmount(value) ==
    IF value = <<"1", ",", "2", "3", "4">> THEN 1234 ELSE 0

\* the line item a row of a card was drawn from: [entry, position], entry
\* 0 when the queue has no such line item
Resolved(c, r) ==
    LET fileItem == FindById(fileQueue, cards[c].rows[r].id)
    IN IF /\ fileItem # 0
          /\ fileQueue[fileItem].result # NoResult
          /\ cards[c].rows[r].index
                 < Len(fileQueue[fileItem].result.transactions)
       THEN [entry |-> fileItem, pos |-> cards[c].rows[r].index + 1]
       ELSE [entry |-> 0, pos |-> 0]

\* C13: an edit of a cell of an existing line item is never rejected: the
\* amount becomes the number read after the grouping commas are stripped,
\* 0 when there is none, any other field becomes the text; afterwards the
\* subtotal of the table equals the fresh sum of the amounts of its items.
C13_EditStoresAndResums ==
    [][\A c \in DOMAIN cards : \A r \in DOMAIN cards[c].rows :
       \A field \in EditFields : \A value \in EditTexts :
          (Blur(c, r, field, value) /\ Resolved(c, r).entry # 0) =>
             LET at == Resolved(c, r)
                 item == fileQueue'[at.entry].result.transactions[at.pos]
             IN /\ item[field] = IF field = "amount"
                                 THEN ClaimedAmount(value) ELSE value
                /\ cards'[c].subtotal =
                       FreshSubtotal(cards[c].bank, cards[c].month)']_vars

\* ------------------------------------------------------------ rows and keys
\* seq without its element at position k
RemoveAt(seq, k) == SubSeq(seq, 1, k - 1) \o SubSeq(seq, k + 1, Len(seq))

\* the row was drawn from a line item the queue still holds
RowIsCurrent(row) ==
    /\ row.src <= Len(fileQueue)
    /\ fileQueue[row.src].id = row.id
    /\ fileQueue[row.src].result # NoResult
    /\ row.index < Len(fileQueue[row.src].result.transactions)

\* C14: a click on the delete button of the row drawn from position k of an
\* entry removes exactly that line item and keeps the order of the others;
\* in the cards drawn next every key resolves to the line item its row was
\* drawn from, so none resolves to the deleted item or to another one.
C14_DeleteRemovesThatItem ==
    [][\A c \in DOMAIN cards : \A r \in DOMAIN cards[c].rows :
          LET row == cards[c].rows[r]
          IN (DeleteRow(c, r) /\ RowIsCurrent(row)) =>
                /\ fileQueue' =
                       [fileQueue EXCEPT ![row.src].result.transactions =
                           RemoveAt(@, row.index + 1)]
                /\ \A c2 \in DOMAIN cards' : \A r2 \in DOMAIN cards'[c2].rows :
                       LET row2 == cards'[c2].rows[r2]
                       IN /\ FindById(fileQueue', row2.id) = row2.src
                          /\ row2.index + 1 \in DOMAIN
                                 fileQueue'[row2.src].result.transactions]_vars

\* C15: every line item on display is addressed by its key: decoding the
\* key of a row and resolving the entry id gives the entry and the position
\* the row was drawn from, whatever the id of the entry (uploaded, restored
\* or synthetic) and whatever other entries were added or removed.
C15_KeysResolve ==
    \A c \in DOMAIN cards : \A r \in DOMAIN cards[c].rows :
        LET row == cards[c].rows[r]
            decoded == DecodeKey(row.key)
        IN /\ FindByText(fileQueue, decoded.fileId) = row.src
           /\ decoded.itemIndex = row.index

\* ------------------------------------------------------------ total balance
\* the accounts of the counted statements: institution and account number
AccountOf(p) ==
    <<fileQueue[p].result.bankName, fileQueue[p].result.accountNumber>>

Accounts == {AccountOf(p) : p \in {q \in DOMAIN fileQueue : Counted(q)}}

\* the statements of an account that no statement of the account is more
\* recent than; a statement without a date counts only when none has one
MostRecent(a) ==
    LET S == {p \in DOMAIN fileQueue : Counted(p) /\ AccountOf(p) = a}
        dated == {p \in S : fileQueue[p].result.statementDate # NoDate}
    IN IF dated = {} THEN S
       ELSE {p \in dated : \A q \in dated :
                ~DateAfter(fileQueue[q].result.statementDate,
                           fileQueue[p].result.statementDate)}

RECURSIVE BalanceOver(_, _)
BalanceOver(pick, A) ==
    IF A = {} THEN 0
    ELSE LET a == CHOOSE x \in A : TRUE
         IN EndingBalance(fileQueue[pick[a]].result)
            + BalanceOver(pick, A \ {a})

\* C19: the total balance on display is the sum, over the distinct accounts,
\* of the ending balance of the account's most recent statement, and so does
\* not depend on the order of the queue.
C19_TotalBalance ==
    Accounts # {} =>
        /\ footer.text = "total"
        /\ \E pick \in [Accounts -> DOMAIN fileQueue] :
              /\ \A a \in Accounts : pick[a] \in MostRecent(a)
              /\ footer.total = BalanceOver(pick, Accounts)

\* ------------------------------------------------------- synthetic entries
\* what saveAnalysisData would write for the queue Q
Persisted(Q) ==
    Range(Flatten(GroupByBank([k \in 1..Len(SuccessfulItems(Q)) |->
                                  SuccessfulItems(Q)[k].result], <<>>)))

\* C16: the add button of a card finds the synthetic entry of the card's
\* month and bank or fabricates it with status success and empty tables,
\* and appends exactly one line item with amount 0 to it; the queue then
\* holds exactly one synthetic entry for that month and bank, and a save
\* persists it.
C16_AddAppendsOneItem ==
    \A c \in DOMAIN cards :
        LET fileId == ManualId(cards[c].month, cards[c].bank)
            Q1 == AddRowQueue(c)
            found == FindById(fileQueue, fileId)
            before == IF found = 0 \/ fileQueue[found].result = NoResult
                      THEN <<>> ELSE fileQueue[found].result.transactions
            synthetic == {p \in DOMAIN Q1 : Q1[p].id = fileId}
        IN /\ Cardinality(synthetic) = 1
           /\ \A p \in synthetic :
                 /\ Q1[p].status = "success"
                 /\ Q1[p].result # NoResult
                 /\ Len(Q1[p].result.transactions) = Len(before) + 1
                 /\ SubSeq(Q1[p].result.transactions, 1, Len(before)) = before
                 /\ Q1[p].result.transactions[Len(before) + 1].amount = 0
                 /\ Q1[p].result \in Persisted(Q1)
                 /\ \A q \in DOMAIN fileQueue : q # p => Q1[q] = fileQueue[q]

\* ------------------------------------------------------------------ removal
\* C17: a click on remove takes exactly the clicked entry out of the queue
\* and leaves every other entry as it was; the entry does not come back, and
\* a call of a removed entry that settles later changes no entry of the
\* queue.
C17_RemoveExactlyOne ==
    [][/\ RemoveClick =>
             \E p \in DOMAIN fileQueue : fileQueue' = RemoveAt(fileQueue, p)
       /\ OrphanSettles => fileQueue' = fileQueue]_vars

\* ------------------------------------------------------------ billing month
\* the calendar month before month m of year y
PreviousMonth(y, m) == IF m = 1 THEN MkMonth(y - 1, 12) ELSE MkMonth(y, m - 1)

\* C18: with a cutoff day c in 1..31 a statement dated before day c of its
\* month is filed under the previous calendar month (December of the year
\* before for a January date), any other statement, and every statement
\* when no cutoff day is set, under the month of its date.
C18_BillingMonth ==
    \A c \in DOMAIN cards :
        LET date == fileQueue[1].result.statementDate
        IN cards[c].month =
               IF cutoffDay # 0 /\ date.d < cutoffDay
               THEN PreviousMonth(date.y, date.m)
               ELSE MkMonth(date.y, date.m)


\* ------------------------------------------------------------------ sorting
\* the line items a table shows, in the order of its rows
Shown(rows) == [k \in DOMAIN rows |-> rows[k].tx]

Reversed(seq) == [k \in DOMAIN seq |-> seq[Len(seq) + 1 - k]]

\* the table of card c is sorted by date, ascending: no row is before a row
\* of an earlier date
AscendingByDate(c) ==
    /\ cards[c].sortKey = "date"
    /\ cards[c].direction = "asc"
    /\ \A i \in DOMAIN cards[c].rows : \A j \in DOMAIN cards[c].rows :
           i < j => ~ValueAfter(cards[c].rows[i].tx, cards[c].rows[j].tx,
                                "date")

\* no two rows compare equal by date: no two have the same date and, with
\* two rows or more, every date parses or is empty
DistinctDates(rows) ==
    \A i \in DOMAIN rows : \A j \in DOMAIN rows :
        i # j => \/ ValueAfter(rows[i].tx, rows[j].tx, "date")
                 \/ ValueAfter(rows[j].tx, rows[i].tx, "date")

LowerCase(str) == [k \in DOMAIN str |-> IF str[k] = "T" THEN "t" ELSE str[k]]

\* the reference ordering: a is after b by the column `key`; a date that is
\* empty or does not parse is the earliest time
ReferenceAfter(a, b, key) ==
    LET Time(str) == IF parseDate(str) = NoDate THEN MkDate(1970, 1, 1)
                     ELSE parseDate(str)
    IN  IF key = "date" THEN DateAfter(Time(a.date), Time(b.date))
        ELSE IF key = "amount" THEN a.amount > b.amount
        ELSE TextAfter(LowerCase(a[key]), LowerCase(b[key]))

NonDecreasing(rows, key) ==
    \A i \in DOMAIN rows : \A j \in DOMAIN rows :
        i < j => ~ReferenceAfter(rows[i].tx, rows[j].tx, key)

\* C21: after an ascending sort by any column the rows are non-decreasing under
\* the reference ordering: dates by parsed calendar time with unparseable and
\* empty dates earliest, numbers numerically, other fields as text without
\* regard to case.
C21_AscendingIsOrdered ==
    [][\A c \in DOMAIN cards : \A key \in {"date", "description", "amount"} :
           (handleSort(c, key) /\ cards'[c].direction = "asc")
               => NonDecreasing(cards'[c].rows, key)]_vars

\* --------------------------------------------------------------- sort state
\* the rows of a card are in the order of its sort state
InSortOrder(card) ==
    \A i \in DOMAIN card.rows : \A j \in DOMAIN card.rows :
        i < j => Compare(card.rows[i].tx, card.rows[j].tx,
                         card.sortKey, card.direction) <= 0

\* C22: after a delete the table of the same month and bank still has the sort
\* key and the direction the user chose, and its rows are in the order of that
\* key and direction.
C22_SortSurvivesMutation ==
    [][DeleteRowClick =>
           \A c \in DOMAIN cards : \A d \in DOMAIN cards' :
               (cards'[d].month = cards[c].month /\ cards'[d].bank = cards[c].bank)
                   => /\ cards'[d].sortKey = cards[c].sortKey
                      /\ cards'[d].direction = cards[c].direction
                      /\ InSortOrder(cards'[d])]_vars

\* ------------------------------------------------------------- the join key
\* C23: every entry that is success through an inference call has a result
\* whose billHash is the fingerprint computed for the entry.
C23_ResultCarriesFingerprint ==
    \A p \in DOMAIN fileQueue :
        (fileQueue[p].status = "success" /\ fileQueue[p].fate = "inferred")
            => fileQueue[p].result.billHash = fileQueue[p].hash

\* -------------------------------------------------------------- diagnostics
\* the properties an entry object is given by handleFiles, processLoadedData
\* and processQueue, and the history fields kept beside them here
EntryProperties ==
    {"id", "file", "status", "result", "hash", "loadedFromLocal", "apiParts"}

HistoryFields == {"calling", "fate", "obj"}

\* C24: every entry whose processing failed in Phase A or Phase B has status
\* error and holds, as a property of the entry, a diagnostic of the failure.
C24_FailureHoldsDiagnostic ==
    \A p \in DOMAIN fileQueue :
        fileQueue[p].fate = "failed"
            => /\ fileQueue[p].status = "error"
               /\ \E property \in DOMAIN fileQueue[p] :
                      property \notin EntryProperties \cup HistoryFields

\* ------------------------------------------------------- order of settlement
\* two outcomes of a call beside the failure: answers that differ in every
\* field the aggregation reads
SomeAnswers ==
    {MkResult(NULL, "bankA", MkDate(2025, 3, 10), <<Item1>>),
     MkResult("h1", NULL, MkDate(2025, 3, 10), <<Item1, Item2>>)}

\* the queue after the calls of p and then of q have settled
SettledBoth(p, okP, respP, q, okQ, respQ) ==
    Settled(Settled(fileQueue, p, okP, respP), q, okQ, respQ)

C26_ModeFollowsCharCount ==
    payload.apiParts # <<>> =>
        LET text == fullText(pdfDoc)
            count == Cardinality({k \in DOMAIN text : text[k] = CJK})
            parts == payload.apiParts
        IN  /\ DOMAIN parts[1] = {"text"}
            /\ parts[1].text.prompt = payload.hash
            /\ IF count < 150
               THEN /\ parts[1].text.task = "ocr"
                    /\ parts[1].text.body = text
                    /\ Len(parts) = 1 + Len(pdfDoc)
                    /\ \A i \in 1..Len(pdfDoc) :
                          /\ DOMAIN parts[i + 1] = {"inlineData"}
                          /\ parts[i + 1].inlineData.data.page = i
                          /\ parts[i + 1].inlineData.data.processed
               ELSE /\ parts[1].text.task = "text"
                    /\ Len(parts) = 1
                    /\ \A pattern \in {"id", "card", "phone"} :
                          \A p \in DOMAIN parts[1].text.body :
                              MatchAt(pattern, parts[1].text.body, p) = 0

\* a document of exactly 150 CJK characters went the text way, and a number
\* was taken out of its text
C26_ExactlyThresholdRedacted ==
    /\ payload.apiParts # <<>>
    /\ Cardinality({k \in DOMAIN fullText(pdfDoc) :
                        fullText(pdfDoc)[k] = CJK}) = 150
    /\ Len(payload.apiParts) = 1
    /\ payload.apiParts[1].text.task = "text"
    /\ \E p \in DOMAIN payload.apiParts[1].text.body :
          payload.apiParts[1].text.body[p] = "[card removed]"


\* -------------------------------------------------------------- round trip
\* what a click on save writes for the queue as it is
Snapshot(Q) ==
    GroupByBank([k \in 1..Len(SuccessfulItems(Q)) |->
                    stringify(SuccessfulItems(Q)[k].result)], <<>>)

\* the results of the entries that count, in the order of the queue
SuccessResults(Q) ==
    [k \in 1..Len(SuccessfulItems(Q)) |-> SuccessfulItems(Q)[k].result]

\* the two sequences hold the same records, each as often
SameRecords(a, b) ==
    \A r \in Range(a) \cup Range(b) :
        Cardinality({k \in DOMAIN a : a[k] = r})
            = Cardinality({k \in DOMAIN b : b[k] = r})

\* the subtotal of every card the page draws for the queue
Subtotals(Q) ==
    {[month |-> card.month, bank |-> card.bank, subtotal |-> card.subtotal] :
        card \in Range(Aggregated(Q, cutoffDay).cards)}

\* C27: a restore from the snapshot just saved from the queue leaves a queue
\* whose success results are the results of the success entries saved, each
\* as often, and every subtotal drawn after the restore is the one of before.
C27_RoundTripKeepsResults ==
    [][(RestoreRedraw /\ stored # <<>> /\ stored = Snapshot(fileQueue)) =>
          /\ SameRecords(SuccessResults(fileQueue'), SuccessResults(fileQueue))
          /\ Subtotals(fileQueue') = Subtotals(fileQueue)]_vars


C29_SuccessHasResult ==
    \A p \in Positions :
        fileQueue[p].status = "success" => fileQueue[p].result # NoResult


\* C30: no two entries of the queue have the same id.
C30_IdsUnique ==
    \A p \in Positions, q \in Positions :
        p # q => fileQueue[p].id # fileQueue[q].id


\* ----------------------------------------------------------- shared results
\* C31: an edit of a cell or a delete of a row changes the result of at most
\* one entry of the queue: the line items of every other entry are as they
\* were, those of an entry whose result came from the dedup short-circuit
\* included.
C31_EditChangesOneEntry ==
    [][(BlurAmount \/ DeleteRowClick) =>
          Cardinality({q \in DOMAIN fileQueue :
                          fileQueue'[q].result # fileQueue[q].result}) <= 1]_vars


\* ------------------------------------------------------ the synthetic bucket
\* C32: after a click on the add button of the card of a month and a bank
\* that does not fail, the cards drawn next show the new line item in the
\* card of that month and that bank, and every row of the synthetic entry of
\* the month and the bank is in that card, with a cutoff day and without.
C32_AddedItemInSameBucket ==
    [][\A c \in DOMAIN cards :
          (AddRowClick /\ ~AddRowThrows(c) /\ fileQueue' = AddRowQueue(c)) =>
              LET fileId == ManualId(cards[c].month, cards[c].bank)
                  entry == FindById(fileQueue', fileId)
                  last == Len(fileQueue'[entry].result.transactions) - 1
              IN /\ \E d \in DOMAIN cards' :
                       /\ cards'[d].month = cards[c].month
                       /\ cards'[d].bank = cards[c].bank
                       /\ \E r \in DOMAIN cards'[d].rows :
                              /\ cards'[d].rows[r].id = fileId
                              /\ cards'[d].rows[r].index = last
                              /\ cards'[d].rows[r].tx = NewEntry
                 /\ \A d \in DOMAIN cards' : \A r \in DOMAIN cards'[d].rows :
                       cards'[d].rows[r].id = fileId =>
                           /\ cards'[d].month = cards[c].month
                           /\ cards'[d].bank = cards[c].bank]_vars


\* ------------------------------------------------------- the grouped copies
\* C33: a click on a header shows, in every row of the sorted table that
\* stands for a line item of the queue, the values the queue holds for that
\* line item: the data the table is drawn from agrees with the results, also
\* after a cell was edited.
C33_SortShowsStore ==
    [][\A c \in DOMAIN cards : \A sortBy \in {"date", "description", "amount"} :
          handleSort(c, sortBy) =>
              \A r \in DOMAIN cards'[c].rows :
                  LET row == cards'[c].rows[r]
                      fileItem == FindById(fileQueue, row.id)
                  IN (/\ fileItem # 0
                      /\ fileQueue[fileItem].result # NoResult
                      /\ row.index < Len(fileQueue[fileItem].result.transactions))
                         => row.tx = fileQueue[fileItem].result
                                         .transactions[row.index + 1]]_vars


\* --------------------------------------------------------- the add button
\* C34: in every state the add button of every card on display works: the
\* click does not end in an exception, whatever became of the synthetic
\* entry of the card's month and bank (marked failed, reset to pending).
C34_AddNeverThrows == \A c \in DOMAIN cards : ~AddRowThrows(c)


\* ------------------------------------------------------- the end of a prompt
\* C35: whenever the password prompt is up, the user who does not know the
\* password of the document has a way to end the escalation: something
\* they can submit that takes the run past the document, to the next item
\* or to the end of Phase A, without a further open attempt or prompt.
C35_PromptCanBeEnded ==
    pc = "prompt" =>
        ENABLED (\E value \in (Passwords \cup {EmptyPw}) \ {curFile.lock} :
                    SubmitValue(value) /\ pc' \notin {"open", "prompt"})


C38_SummaryMonthIsPageMonth ==
    \A c \in DOMAIN cards :
        \A p \in Positions :
            (/\ fileQueue[p].status = "success"
             /\ fileQueue[p].result # NoResult
             /\ \E r \in DOMAIN cards[c].rows : cards[c].rows[r].id = fileQueue[p].id)
            => processAllData(fileQueue[p].result) = cards[c].month


\* C37: at most one run of processQueue is active and at most one password
\* prompt is outstanding at any time: while a run prepares documents the
\* only entry that can be in preparation is the one the run is at, no entry
\* is in preparation otherwise, and a password submitted through the modal goes to
\* the preparation of the document the prompt was shown for, which opens
\* that document with it.
C37_OnePromptOneDocument ==
    [][LET \* marked processing, its payload not made yet
           InPreparation ==
               {p \in Positions :
                   /\ fileQueue[p].status = "processing"
                   /\ ~fileQueue[p].apiParts
                   /\ ~fileQueue[p].calling}
           OneRun ==
               IF pc \in PhaseA
               THEN /\ InPreparation \subseteq {cur}
                    /\ cur # 0 => fileQueue[cur].file = curFile
               ELSE InPreparation = {}
           Delivered ==
               \A value \in Passwords \cup {EmptyPw} :
                   SubmitValue(value) =>
                       /\ pc' = "open"
                       /\ toTry' = <<>>
                       /\ userPw' = value
                       /\ cur' = cur
                       /\ curFile' = curFile
                       /\ fileQueue' = fileQueue
       IN  OneRun /\ OneRun' /\ Delivered]_vars

\* the password submitted for the second of two protected documents is
\* being tried on it
C37_SecondPromptAnswered ==
    /\ pc = "open"
    /\ toTry = <<>>
    /\ userPw # NULL
    /\ cur = 2
    /\ curFile.lock # NULL
    /\ fileQueue[1].file.lock # NULL

====
